---- MODULE Spec2Model ----
(***************************************************************************)
(* Verification model of koishi-plugin-bilibili-notify.                    *)
(*                                                                         *)
(* Sub-systems, each with its own specification over the shared variables: *)
(*   SpecFilter   - DynamicDetector.filterNewDynamics as a pure function   *)
(*   SpecRisk     - RiskControlManager on its own                          *)
(*   SpecDetector - DynamicDetector: timers, overlapping detection passes  *)
(*   SpecLive     - LiveListener: poll checks and push events of one room  *)
(*   SpecHttp     - BilibiliHttpService: spacing, rotation, disposal       *)
(*   SpecRetry    - BilibiliHttpService.smartRetry, one call at a time     *)
(*   SpecDanmu    - DanmuListenerService: the pool of push connections     *)
(*   SpecWbi      - BilibiliWbi: the cache of signing keys                 *)
(*   SpecApi      - BilibiliApiService: the result envelope                *)
(*   SpecNotify   - NotificationManager: delivery attempts                 *)
(*   SpecMon      - LiveListener and the push bridge, several rooms        *)
(*   SpecReconnect - DanmuListenerService at its default capacity, asked   *)
(*                  again for a room it holds                              *)
(*   SpecPause    - DynamicDetector and its pauses, nothing published      *)
(*                                                                         *)
(* Conventions: an optional field that is `undefined` in the source is 0   *)
(* here (ids and timestamps of the program are never 0); times are in ms.  *)
(* An async function is cut at its awaits: every action is one synchronous *)
(* segment of the source, from one await to the next.                      *)
(***************************************************************************)
EXTENDS Integers, Sequences, FiniteSets, TLC

VARIABLES
    \* ---- filterNewDynamics harness
    fDynamics,      \* argument `dynamics` (ids, newest first)
    fLastId,        \* argument `lastDynamicId` (0 = undefined)
    fNew,           \* the returned array
    fCalled,        \* TRUE once the function has been applied to the inputs
    \* ---- RiskControlManager (the instance owned by the component studied)
    status,         \* RiskControlManager.status
    now,            \* Date.now()
    riskView,       \* value returned by the last isCurrentlyBlocked() call
    fresh,          \* ghost: qualifying failures since the counter was last at 0
    interleaved,    \* ghost: a success reset a non-zero counter before a block
    lastOp,         \* ghost: the tracker operation called last (SpecRisk)
    \* ---- DynamicDetector
    isRunning,      \* DynamicDetector.isRunning
    detectionTimer, \* TRUE iff DynamicDetector.detectionTimer is set
    pendingInitial, \* number of pending 5-second setTimeout callbacks
    lastDynamicIds, \* lastDynamicIds.get(uid) of the subscribed user (0 = none)
    published,      \* upstream: number of posts the user has published
    postBlocked,    \* upstream: ids of posts whose content the filter rejects
    pass,           \* per checkForUpdates invocation: its position and locals
    notified,       \* ghost: per post, the targets sendNotification was called for
    emitted,        \* ghost: per pass, the posts in the order it notified them
    \* ---- LiveListener
    listener,       \* isRunning, checkTimer, liveRooms populated
    pushLink,       \* push connection of the room: none, open or stale
    room,           \* the LiveRoom record of the monitored room
    upstream,       \* upstream: live flag, title and session number
    handler,        \* per handler invocation: its position and locals
    liveTimers,     \* number of armed repeat-notification intervals
    liveLog,        \* ghost: the (session, target) pairs notified, the sessions cancelled
    liveGhost,      \* ghost: facts about the session needed by the claims
    \* ---- BilibiliHttpService
    hnow,           \* Date.now() as the HTTP service reads it
    scopeActive,    \* ctx.scope.isActive
    lastRequestTime,        \* BilibiliHttpService.lastRequestTime
    currentUserAgentIndex,  \* BilibiliHttpService.currentUserAgentIndex
    call,           \* per caller: the position and locals of its get / getWithRetry
    started,        \* number of calls made so far
    lastIssue,      \* ghost: when the latest upstream request was issued (0 = never)
    \* ---- DanmuListenerService
    bridgeRunning,  \* DanmuListenerService.isRunning
    connections,    \* DanmuListenerService.connections, per room
    reconnectTimers,\* per room: pending reconnect timers of handleConnectionError
    errorTimers,    \* per room: pending 5-second timers of onError
    settling,       \* per room: reconnect callbacks in their 2-second wait
    dialing,        \* per room: connectRoom calls awaiting the API service
    dropped,        \* ghost: per room, a connectRoom call in progress deleted the
                    \* room's record when it began
    asked,          \* per room: connectRoom calls made by the owner
    redials,        \* ghost: per room, redials since its connection last opened
    terminal,       \* ghost: per room, the reconnect limit was exceeded
    danmuEvents,    \* ghost: the events emitted to the owner by the last step, and
                    \* the calls and the answer of a connectRoom that returned in it
    \* ---- BilibiliWbi
    wbiKeys,        \* BilibiliWbi.wbiKeys: 0 for null, else the key pair held
    wbiKeysExpiry,  \* BilibiliWbi.wbiKeysExpiry
    wbiNow,         \* Date.now() as the key cache reads it
    wbiCall,        \* per caller: the position and the result of its getWbiKeys
    wbiEver,        \* ghost: a key fetch has succeeded at some earlier time
    wbiPopulated,   \* ghost: a key fetch has succeeded since the last clearCache
    \* ---- BilibiliApiService
    apiCall,        \* per caller: the operation, its position and its result
    \* ---- NotificationManager
    notifyCall,     \* per sendNotification: its position, the deliveries that
                    \* outlive it, the bot.sendMessage attempts made, its result
    \* ---- LiveListener with several rooms in front of the push bridge
    monitor,        \* isRunning, danmakuService, checkTimer, and the position
                    \* of the startListening call in progress
    eventHandlers,  \* DanmuListenerService.eventHandlers: the room whose
                    \* closures are registered (0 = none)
    liveRooms,      \* LiveListener.liveRooms, per room
    linked,         \* per room: DanmuListenerService.isConnected(roomId)
    upLive,         \* upstream: per room, the room is live
    inbox,          \* per room: a LIVE message is on its way on the socket
    poll,           \* the checkAllLiveStatus pass in progress
    pushCall,       \* per room: handleDanmakuLiveStart awaiting fetchLiveStatus
    startHandled,   \* ghost: per room, handleLiveStart has been called
    turnedLive      \* ghost: per room, it went live since startListening began


filterVars == <<fDynamics, fLastId, fNew, fCalled>>
riskVars   == <<status, now, riskView, fresh, interleaved, lastOp>>
detVars    == <<isRunning, detectionTimer, pendingInitial, lastDynamicIds,
                published, postBlocked, pass, notified, emitted>>
liveVars   == <<listener, pushLink, room, upstream, handler, liveTimers, liveLog, liveGhost>>
httpVars   == <<hnow, scopeActive, lastRequestTime, currentUserAgentIndex, call,
                started, lastIssue>>
danmuVars  == <<bridgeRunning, connections, reconnectTimers, errorTimers, settling,
                dialing, dropped, asked, redials, terminal, danmuEvents>>
wbiVars    == <<wbiKeys, wbiKeysExpiry, wbiNow, wbiCall, wbiEver, wbiPopulated>>
apiVars    == <<apiCall>>
notifyVars == <<notifyCall>>
monVars    == <<monitor, eventHandlers, liveRooms, linked, upLive, inbox, poll,
                pushCall, startHandled, turnedLive>>
auxVars    == <<wbiVars, apiVars, notifyVars, monVars>>
coreVars   == <<filterVars, riskVars, detVars, liveVars, httpVars, danmuVars>>
notWbi     == <<coreVars, apiVars, notifyVars, monVars>>
notApi     == <<coreVars, wbiVars, notifyVars, monVars>>
notNotify  == <<coreVars, wbiVars, apiVars, monVars>>
notMon     == <<coreVars, wbiVars, apiVars, notifyVars>>
netVars    == <<httpVars, danmuVars, auxVars>>
vars       == <<filterVars, riskVars, detVars, liveVars, netVars>>

(***************************************************************************)
(* Bounds                                                                  *)
(***************************************************************************)
MaxPosts    == 3    \* posts the upstream user publishes (ids 1..MaxPosts)
MaxFeed     == 3    \* longest feed handed to filterNewDynamics in SpecFilter
MaxFailures == 7    \* cap on consecutiveFailures
MaxTicks    == 14   \* clock ticks of TickMs

Min(a, b) == IF a < b THEN a ELSE b
Max(a, b) == IF a > b THEN a ELSE b

RECURSIVE Pow2(_)
Pow2(n) == IF n <= 0 THEN 1 ELSE 2 * Pow2(n - 1)

Range(s) == {s[i] : i \in 1..Len(s)}

MaxCallers    == 2      \* concurrent callers of the HTTP service
MaxCalls      == 2      \* calls made to the HTTP service in a run
MaxConcurrentRetries == 1   \* maxRetries of the calls that run concurrently
NumUserAgents == 2      \* length of BilibiliHttpService.userAgents
MaxRooms      == 2      \* rooms the owner may ask the push bridge for
maxConnections == 1     \* DanmuListenerService.maxConnections as configured
\* DEFAULT_CONFIG of constants.ts: the capacity of a bridge left unconfigured
DEFAULT_CONFIG == [MAX_CONNECTIONS |-> 5]
MaxAsks       == 1      \* connectRoom calls of the owner per room
MaxReasks     == 2      \* the same, of an owner that asks again for a room it has
MaxDialing    == 1      \* connectRoom calls, and reconnect callbacks, in progress per room
MaxReconnectTimers == 3 \* pending reconnect timers of the bridge, all rooms together
MaxErrorTimers == 2     \* pending onError timers of the bridge, all rooms together
MaxRedials    == 4      \* cap on the redials counted per room
MaxWbiCallers == 2      \* concurrent callers of getWbiKeys
MaxKeyPairs   == 2      \* key pairs the upstream serves over time
MaxWbiTicks   == 5      \* clock ticks of the key cache
MaxApiCallers == 2      \* concurrent callers of the API service
MaxNotifiers  == 2      \* sendNotification calls in progress at once
MaxAttempts   == 4      \* cap on the bot.sendMessage attempts of one notification

(***************************************************************************)
(* Array helpers of the source language                                    *)
(***************************************************************************)
\* Array.prototype.slice(a, b) for 0 <= a <= b
Slice(s, a, b) == SubSeq(s, a + 1, Min(b, Len(s)))

\* Array.prototype.findIndex(d => d.id_str === x): first 0-based index or -1
FindIndex(s, x) ==
    IF \E i \in 1..Len(s) : s[i] = x
    THEN (CHOOSE i \in 1..Len(s) : s[i] = x /\ \A j \in 1..(i - 1) : s[j] # x) - 1
    ELSE -1

(***************************************************************************)
(* DynamicDetector.filterNewDynamics                                       *)
(***************************************************************************)
NoId == 0

filterNewDynamics_inclusive(dynamics, lastDynamicId) ==
    IF lastDynamicId = NoId
    THEN Slice(dynamics, 0, 1)
    ELSE LET lastIndex == FindIndex(dynamics, lastDynamicId) IN
         IF lastIndex = -1 THEN Slice(dynamics, 0, 1)
         ELSE Slice(dynamics, 0, lastIndex + 1)

filterNewDynamics_wholeFeed(dynamics, lastDynamicId) ==
    IF lastDynamicId = NoId
    THEN dynamics
    ELSE LET lastIndex == FindIndex(dynamics, lastDynamicId) IN
         IF lastIndex = -1 THEN dynamics
         ELSE Slice(dynamics, 0, lastIndex)

filterNewDynamics(dynamics, lastDynamicId) ==
    IF lastDynamicId = NoId
    THEN Slice(dynamics, 0, 1)
    ELSE LET lastIndex == FindIndex(dynamics, lastDynamicId) IN
         IF lastIndex = -1 THEN Slice(dynamics, 0, 1)
         ELSE Slice(dynamics, 0, lastIndex)

(***************************************************************************)
(* RiskControlManager                                                      *)
(***************************************************************************)
MAX_CONSECUTIVE_FAILURES == 3
BASE_BLOCK_DURATION == 5 * 60 * 1000
MAX_BLOCK_DURATION  == 60 * 60 * 1000
LOG_INTERVAL        == 5 * 60 * 1000
TickMs              == 5 * 60 * 1000

\* An error message is modelled by the keywords it contains as substrings.
\* The four messages are the ones BilibiliApiService.handleApiError and the
\* HTTP layer produce for -352, -509, -626 and a network failure.
ErrRiskControl  == {"-352", "req_risk_controlled", "risk_control", "User-Agent"}
ErrTooFrequent  == {"req_too_frequent", "frequent", "-509"}
ErrUserNotExist == {"-626"}
ErrNetwork      == {}
Errors == {ErrRiskControl, ErrTooFrequent, ErrUserNotExist, ErrNetwork}

Includes(error, keyword) == keyword \in error

isRiskControlError(error) ==
    \E keyword \in {"-352", "req_risk_controlled", "req_intercepted",
                    "risk_control", "User-Agent", "req_too_frequent",
                    "-503", "-509", "-799"} : Includes(error, keyword)

InitStatus ==
    [isBlocked |-> FALSE, blockStartTime |-> 0, blockDuration |-> 0,
     consecutiveFailures |-> 0, lastLogTime |-> 0]

clearBlock(st) ==
    [st EXCEPT !.isBlocked = FALSE, !.blockStartTime = 0, !.blockDuration = 0,
               !.consecutiveFailures = 0, !.lastLogTime = 0]

isCurrentlyBlocked_neverExpires(st, t) ==
    [ret |-> st.isBlocked, st |-> st]

\* isCurrentlyBlocked(): the returned value and the status it leaves behind
isCurrentlyBlocked(st, t) ==
    IF ~st.isBlocked THEN [ret |-> FALSE, st |-> st]
    ELSE IF st.blockStartTime # 0 /\ t - st.blockStartTime >= st.blockDuration
         THEN [ret |-> FALSE, st |-> clearBlock(st)]
         ELSE [ret |-> TRUE, st |-> st]

activateBlock_uncapped(st, t) ==
    LET multiplier == Min(st.consecutiveFailures - MAX_CONSECUTIVE_FAILURES + 1, 4) IN
    [st EXCEPT !.blockDuration = BASE_BLOCK_DURATION * Pow2(multiplier),
               !.isBlocked = TRUE, !.blockStartTime = t, !.lastLogTime = t]

activateBlock(st, t) ==
    LET multiplier == Min(st.consecutiveFailures - MAX_CONSECUTIVE_FAILURES + 1, 4) IN
    [st EXCEPT !.blockDuration =
                   Min(BASE_BLOCK_DURATION * Pow2(multiplier), MAX_BLOCK_DURATION),
               !.isBlocked = TRUE, !.blockStartTime = t, !.lastLogTime = t]

recordFailure_lateThreshold(st, error, t) ==
    IF isRiskControlError(error)
    THEN LET s1 == [st EXCEPT !.consecutiveFailures = @ + 1] IN
         IF s1.consecutiveFailures > MAX_CONSECUTIVE_FAILURES
         THEN activateBlock(s1, t) ELSE s1
    ELSE st

recordFailure(st, error, t) ==
    IF isRiskControlError(error)
    THEN LET s1 == [st EXCEPT !.consecutiveFailures = @ + 1] IN
         IF s1.consecutiveFailures >= MAX_CONSECUTIVE_FAILURES
         THEN activateBlock(s1, t) ELSE s1
    ELSE st

recordSuccess_clearsBlock(st) == clearBlock(st)

recordSuccess(st) == [st EXCEPT !.consecutiveFailures = 0]

getRemainingBlockTime(st, t) ==
    IF ~st.isBlocked \/ st.blockStartTime = 0 THEN 0
    ELSE Max(0, st.blockDuration - (t - st.blockStartTime))

\* getStatus(), as far as DynamicDetector.status passes it on
getStatus(st, t) ==
    [isBlocked |-> st.isBlocked,
     remainingTime |-> getRemainingBlockTime(st, t),
     consecutiveFailures |-> st.consecutiveFailures]

\* shouldLogWarning(): the returned value and the status it leaves behind
shouldLogWarning(st, t) ==
    IF ~st.isBlocked THEN [ret |-> FALSE, st |-> st]
    ELSE IF st.lastLogTime = 0 \/ t - st.lastLogTime >= LOG_INTERVAL
         THEN [ret |-> TRUE, st |-> [st EXCEPT !.lastLogTime = t]]
         ELSE [ret |-> FALSE, st |-> st]


(***************************************************************************)
(* Initial values of each sub-system (the state after construction)        *)
(***************************************************************************)
\* feeds handed to filterNewDynamics: post ids are unique within a feed
FeedIds == 1..(MaxFeed + 1)
Feeds ==
    {s \in UNION {[1..n -> FeedIds] : n \in 0..MaxFeed} :
        \A i, j \in 1..Len(s) : i # j => s[i] # s[j]}

FilterIdle ==
    /\ fDynamics = <<>>
    /\ fLastId = NoId
    /\ fNew = <<>>
    /\ fCalled = FALSE

RiskIdle ==
    /\ status = InitStatus
    /\ now = TickMs
    /\ riskView = FALSE
    /\ fresh = 0
    /\ interleaved = FALSE
    /\ lastOp = "none"

(***************************************************************************)
(* SpecFilter: filterNewDynamics applied to every feed and last-seen id    *)
(***************************************************************************)
FilterCall ==
    /\ ~fCalled
    /\ fNew' = filterNewDynamics(fDynamics, fLastId)
    /\ fCalled' = TRUE
    /\ UNCHANGED <<fDynamics, fLastId, riskVars, detVars, liveVars, netVars>>

FilterNextInput ==
    /\ fCalled
    /\ fDynamics' \in Feeds
    /\ fLastId' \in {NoId} \cup FeedIds
    /\ fNew' = <<>>
    /\ fCalled' = FALSE
    /\ UNCHANGED <<riskVars, detVars, liveVars, netVars>>

(***************************************************************************)
(* SpecRisk: the operations of one RiskControlManager                      *)
(***************************************************************************)
RiskRecordFailure(error) ==
    /\ status.consecutiveFailures < MaxFailures
    /\ status' = recordFailure(status, error, now)
    /\ fresh' = IF isRiskControlError(error) THEN fresh + 1 ELSE fresh
    /\ lastOp' = "recordFailure"
    /\ UNCHANGED <<now, riskView, interleaved, filterVars, netVars, detVars, liveVars>>

RiskRecordSuccess ==
    /\ status' = recordSuccess(status)
    /\ fresh' = 0
    /\ interleaved' = (interleaved \/ (fresh > 0 /\ ~status.isBlocked))
    /\ lastOp' = "recordSuccess"
    /\ UNCHANGED <<now, riskView, filterVars, netVars, detVars, liveVars>>

RiskIsCurrentlyBlocked ==
    LET r == isCurrentlyBlocked(status, now) IN
    /\ status' = r.st
    /\ riskView' = r.ret
    /\ fresh' = IF status.isBlocked /\ ~r.ret THEN 0 ELSE fresh
    /\ interleaved' = IF status.isBlocked /\ ~r.ret THEN FALSE ELSE interleaved
    /\ lastOp' = "isCurrentlyBlocked"
    /\ UNCHANGED <<now, filterVars, netVars, detVars, liveVars>>

RiskShouldLogWarning ==
    /\ status' = shouldLogWarning(status, now).st
    /\ lastOp' = "shouldLogWarning"
    /\ UNCHANGED <<now, riskView, fresh, interleaved, filterVars, netVars, detVars, liveVars>>

RiskReset ==
    /\ status' = InitStatus
    /\ fresh' = 0
    /\ interleaved' = FALSE
    /\ lastOp' = "reset"
    /\ UNCHANGED <<now, riskView, filterVars, netVars, detVars, liveVars>>

RiskTick ==
    /\ now < MaxTicks * TickMs
    /\ now' = now + TickMs
    /\ lastOp' = "tick"
    /\ UNCHANGED <<status, riskView, fresh, interleaved, filterVars, netVars, detVars, liveVars>>


(***************************************************************************)
(* DynamicDetector                                                         *)
(*                                                                         *)
(* NumSubscriptions subscriptions with `dynamic` enabled.  The user of the *)
(* first publishes posts 1, 2, ... (a larger id is a later post);          *)
(* getUserDynamics returns the newest FeedWindow of them, newest first, or *)
(* fails with an error.  The users of the other subscriptions publish      *)
(* nothing: their fetch fails, or succeeds with an empty feed.             *)
(* A checkForUpdates invocation occupies a slot of `pass` from its start   *)
(* to its return; timers may start one while another is still running.     *)
(***************************************************************************)
MaxPasses  == 2    \* checkForUpdates invocations in progress at once
MaxPending == 2    \* pending initial-check timeouts
FeedWindow == 3    \* items in one fetched feed page
MaxPollFailures == 3   \* cap on consecutiveFailures of a polling component
NumSubscriptions == 2  \* subscriptions with `dynamic` enabled

Passes == 1..MaxPasses
Posts  == 1..MaxPosts

\* sub.targets of the subscription
SubTargets ==
    <<[channelId |-> 1, dynamic |-> TRUE, live |-> TRUE],
      [channelId |-> 2, dynamic |-> FALSE, live |-> FALSE]>>

\* getUserDynamics(uid) on success: the feed, newest first
Feed(n) == [i \in 1..Min(n, FeedWindow) |-> n - i + 1]

\* the feed of the user of subscription `sub`: lastDynamicIds is kept for the
\* first subscription, the users of the others have an empty feed
FeedOf(sub) == IF sub = 1 THEN Feed(published) ELSE <<>>

\* filterService.checkDynamicFilter(dynamic, ...) returns a reason
checkDynamicFilter(post) == post \in postBlocked

IdlePass ==
    [pc |-> "idle", sub |-> 0, ok |-> FALSE, dynamics |-> <<>>, newDynamics |-> <<>>,
     k |-> 0, t |-> 0]

DetIdle ==
    /\ isRunning = FALSE
    /\ detectionTimer = FALSE
    /\ pendingInitial = 0
    /\ lastDynamicIds = NoId
    /\ published = 0
    /\ postBlocked = {}
    /\ pass = [p \in Passes |-> IdlePass]
    /\ notified = [post \in Posts |-> {}]
    /\ emitted = [p \in Passes |-> <<>>]

FreePasses == {p \in Passes : pass[p].pc = "idle"}
FreeSlot == CHOOSE p \in FreePasses : \A q \in FreePasses : p <= q

\* the next target of sub.targets after index t that has `dynamic` set, or 0
NextTarget(t) ==
    IF \E u \in (t + 1)..Len(SubTargets) : SubTargets[u].dynamic
    THEN CHOOSE u \in (t + 1)..Len(SubTargets) :
            /\ SubTargets[u].dynamic
            /\ \A v \in (t + 1)..(u - 1) : ~SubTargets[v].dynamic
    ELSE 0

\* the first index >= k of newDynamics whose post the filter lets through, or 0
NextUnfiltered(newDynamics, k) ==
    IF \E i \in k..Len(newDynamics) : ~checkDynamicFilter(newDynamics[i])
    THEN CHOOSE i \in k..Len(newDynamics) :
            /\ ~checkDynamicFilter(newDynamics[i])
            /\ \A j \in k..(i - 1) : checkDynamicFilter(newDynamics[j])
    ELSE 0

\* the posts of newDynamics that the filter lets through but for which some
\* dynamic-enabled target has not seen a sendNotification call
Lost(newDynamics) ==
    {post \in Range(newDynamics) :
        /\ ~checkDynamicFilter(post)
        /\ \E t \in 1..Len(SubTargets) :
              SubTargets[t].dynamic /\ t \notin notified[post]}

\* checkUserDynamics, lines 236-239: the value stored for the user
updateLastDynamicId_oldest(last, dynamics) ==
    IF Len(dynamics) > 0 THEN dynamics[Len(dynamics)] ELSE last

updateLastDynamicId(last, dynamics) ==
    IF Len(dynamics) > 0 THEN dynamics[1] ELSE last

\* checkUserDynamics, the `for (const dynamic of newDynamics)` loop resumed at
\* index k: posts the filter rejects are skipped without an await; the loop
\* stops at the next generateDynamicImage await, or falls through to the
\* update of lastDynamicIds and the sleep(1000) of checkForUpdates.
ProcessFrom(p, rec, k) ==
    LET nk == NextUnfiltered(rec.newDynamics, k) IN
    IF nk # 0
    THEN /\ pass' = [pass EXCEPT ![p] = [rec EXCEPT !.pc = "image", !.k = nk, !.t = 0]]
         /\ UNCHANGED lastDynamicIds
    ELSE /\ pass' = [pass EXCEPT ![p] =
                    [IdlePass EXCEPT !.pc = "sleep", !.ok = TRUE, !.sub = rec.sub]]
         /\ lastDynamicIds' = updateLastDynamicId(lastDynamicIds, rec.dynamics)

\* Date.now() is only ever compared with the timestamps kept in `status`.
\* When the call has left none there, the clock is re-based to its origin:
\* the behaviours from such a state do not depend on the absolute time.
Rebase(st) ==
    IF st.blockStartTime = 0 /\ st.lastLogTime = 0 THEN TickMs ELSE now

\* checkForUpdates up to its first await
checkForUpdates(p) ==
    LET r == isCurrentlyBlocked(status, now) IN
    /\ riskView' = r.ret
    /\ IF r.ret
       THEN /\ status' = shouldLogWarning(r.st, now).st
            /\ UNCHANGED <<pass, emitted>>
       ELSE /\ status' = r.st
            /\ pass' = [pass EXCEPT ![p] = [IdlePass EXCEPT !.pc = "fetch", !.sub = 1]]
            /\ emitted' = [emitted EXCEPT ![p] = <<>>]
    /\ now' = Rebase(r.st)
    /\ UNCHANGED <<fresh, interleaved, lastOp>>

StartDetection ==
    /\ pendingInitial < MaxPending
    /\ IF isRunning
       THEN UNCHANGED <<isRunning, detectionTimer, pendingInitial>>
       ELSE /\ isRunning' = TRUE
            /\ pendingInitial' = pendingInitial + 1
            /\ detectionTimer' = TRUE
    /\ UNCHANGED <<lastDynamicIds, published, postBlocked, pass, notified,
                   emitted, riskVars>>
    /\ UNCHANGED <<filterVars, netVars, liveVars>>

StopDetection ==
    /\ IF ~isRunning
       THEN UNCHANGED <<isRunning, detectionTimer>>
       ELSE /\ isRunning' = FALSE
            /\ detectionTimer' = FALSE
    /\ UNCHANGED <<pendingInitial, lastDynamicIds, published, postBlocked, pass,
                   notified, emitted, riskVars>>
    /\ UNCHANGED <<filterVars, netVars, liveVars>>

\* the setTimeout(..., 5000) callback of startDetection
InitialCheckFires ==
    /\ pendingInitial > 0
    /\ pendingInitial' = pendingInitial - 1
    /\ IF isRunning
       THEN FreePasses # {} /\ checkForUpdates(FreeSlot)
       ELSE UNCHANGED <<pass, emitted, riskVars>>
    /\ UNCHANGED <<isRunning, detectionTimer, lastDynamicIds, published,
                   postBlocked, notified>>
    /\ UNCHANGED <<filterVars, netVars, liveVars>>

\* the ctx.setInterval callback of startDetection
IntervalTick ==
    /\ detectionTimer
    /\ FreePasses # {}
    /\ checkForUpdates(FreeSlot)
    /\ UNCHANGED <<isRunning, detectionTimer, pendingInitial, lastDynamicIds,
                   published, postBlocked, notified>>
    /\ UNCHANGED <<filterVars, netVars, liveVars>>

\* checkUserDynamics resumed after `await this.fetchUserDynamics(sub.uid)`
\* with a failure result
FetchFails(p, error) ==
    /\ pass[p].pc = "fetch"
    /\ LET s1 == recordFailure(status, error, now)
           s2 == IF Includes(error, "-352") \/ Includes(error, "risk_control") THEN s1
                 ELSE IF Includes(error, "-626") THEN s1
                 ELSE IF Includes(error, "frequent") THEN recordFailure(s1, error, now)
                 ELSE s1
       IN /\ s2.consecutiveFailures <= MaxPollFailures
          /\ status' = s2
    /\ pass' = [pass EXCEPT ![p] = [IdlePass EXCEPT !.pc = "sleep", !.sub = pass[p].sub]]
    /\ UNCHANGED <<now, riskView, fresh, interleaved, lastOp, isRunning, detectionTimer,
                   pendingInitial, lastDynamicIds, published, postBlocked,
                   notified, emitted>>
    /\ UNCHANGED <<filterVars, netVars, liveVars>>

\* ... with a success result
FetchSucceeds(p) ==
    /\ pass[p].pc = "fetch"
    /\ status' = recordSuccess(status)
    /\ LET dynamics == FeedOf(pass[p].sub)
           rec == [IdlePass EXCEPT !.ok = TRUE, !.sub = pass[p].sub, !.dynamics = dynamics,
                      !.newDynamics = filterNewDynamics(dynamics, lastDynamicIds)]
       IN ProcessFrom(p, rec, 1)
    /\ UNCHANGED <<now, riskView, fresh, interleaved, lastOp, isRunning, detectionTimer,
                   pendingInitial, published, postBlocked, notified, emitted>>
    /\ UNCHANGED <<filterVars, netVars, liveVars>>

Bump(post, t) ==
    [notified EXCEPT ![post] = @ \cup {t}]

\* processDynamic resumed after `await generateDynamicImage(dynamic)`
ImageReturns(p, success) ==
    /\ pass[p].pc = "image"
    /\ LET rec == pass[p]
           post == rec.newDynamics[rec.k]
           nt == NextTarget(0)
       IN IF success /\ nt # 0
          THEN /\ notified' = Bump(post, nt)
               /\ emitted' = [emitted EXCEPT ![p] = Append(@, post)]
               /\ pass' = [pass EXCEPT ![p] = [rec EXCEPT !.pc = "send", !.t = nt]]
               /\ UNCHANGED lastDynamicIds
          ELSE /\ ProcessFrom(p, rec, rec.k + 1)
               /\ UNCHANGED <<notified, emitted>>
    /\ UNCHANGED <<riskVars, isRunning, detectionTimer, pendingInitial,
                   published, postBlocked>>
    /\ UNCHANGED <<filterVars, netVars, liveVars>>

\* processDynamic resumed after `await sendNotification(...)`; the result is
\* only logged, so success and failure continue alike
SendReturns(p) ==
    /\ pass[p].pc = "send"
    /\ LET rec == pass[p]
           post == rec.newDynamics[rec.k]
           nt == NextTarget(rec.t)
       IN IF nt # 0
          THEN /\ notified' = Bump(post, nt)
               /\ pass' = [pass EXCEPT ![p] = [rec EXCEPT !.t = nt]]
               /\ UNCHANGED lastDynamicIds
          ELSE /\ ProcessFrom(p, rec, rec.k + 1)
               /\ UNCHANGED notified
    /\ UNCHANGED <<riskVars, isRunning, detectionTimer, pendingInitial,
                   published, postBlocked, emitted>>
    /\ UNCHANGED <<filterVars, netVars, liveVars>>

\* checkForUpdates resumed after `await this.sleep(1000)`: the loop goes on
\* to the fetch of the next subscription, without looking at the risk
\* tracker again; after the last subscription the invocation returns
SleepDone(p) ==
    /\ pass[p].pc = "sleep"
    /\ IF pass[p].sub < NumSubscriptions
       THEN /\ pass' = [pass EXCEPT ![p] =
                       [IdlePass EXCEPT !.pc = "fetch", !.sub = pass[p].sub + 1]]
            /\ UNCHANGED emitted
       ELSE /\ pass' = [pass EXCEPT ![p] = IdlePass]
            /\ emitted' = [emitted EXCEPT ![p] = <<>>]
    /\ UNCHANGED <<riskVars, isRunning, detectionTimer, pendingInitial,
                   lastDynamicIds, published, postBlocked, notified>>
    /\ UNCHANGED <<filterVars, netVars, liveVars>>

\* upstream: the user publishes a post
Publish(blocked) ==
    /\ published < MaxPosts
    /\ published' = published + 1
    /\ postBlocked' = IF blocked THEN postBlocked \cup {published + 1} ELSE postBlocked
    /\ UNCHANGED <<riskVars, isRunning, detectionTimer, pendingInitial,
                   lastDynamicIds, pass, notified, emitted>>
    /\ UNCHANGED <<filterVars, netVars, liveVars>>

\* time passes until the active block has run its duration (the clock is
\* read only while a block is active)
DetTick ==
    /\ status.isBlocked
    /\ now < status.blockStartTime + status.blockDuration
    /\ now' = status.blockStartTime + status.blockDuration
    /\ UNCHANGED <<status, riskView, fresh, interleaved, lastOp, detVars>>
    /\ UNCHANGED <<filterVars, netVars, liveVars>>




(***************************************************************************)
(* LiveListener                                                            *)
(*                                                                         *)
(* One live subscription, hence one LiveRoom.  The upstream room goes live *)
(* (a new session), changes its title and goes offline.  getLiveRoomInfo   *)
(* returns the upstream state at the time it answers, or fails.  A poll    *)
(* check or push-event handler occupies a slot of `handler` from its first *)
(* await to its return.                                                    *)
(***************************************************************************)
MaxHandlers == 2   \* poll checks and push handlers in progress at once
MaxSessions == 1   \* live sessions of the upstream room
MaxTimers   == 2   \* armed repeat-notification intervals

Handlers == 1..MaxHandlers
Sessions == 1..MaxSessions
Titles   == {"chat", "spoiler"}

\* the verdict of the injected filterService.checkLiveFilter(title, ...)
checkLiveFilter(title) == title = "spoiler"

IdleHandler ==
    [kind |-> "idle", pc |-> "idle", op |-> "none", isNowLive |-> FALSE,
     session |-> 0, t |-> 0, initial |-> FALSE]

NoStep == [op |-> "none", h |-> 0, rejected |-> FALSE, wasBlocked |-> FALSE]

LiveIdle ==
    /\ listener = [isRunning |-> FALSE, checkTimer |-> FALSE, ready |-> FALSE]
    /\ pushLink = "none"
    /\ room = [isLive |-> FALSE, title |-> "", isBlocked |-> FALSE,
               liveTime |-> 0, pushTimer |-> FALSE, useDanmaku |-> FALSE]
    /\ upstream = [live |-> FALSE, title |-> "chat", session |-> 0]
    /\ handler = [h \in Handlers |-> IdleHandler]
    /\ liveTimers = 0
    /\ liveLog = [startSent |-> {}, endSent |-> {}, cancels |-> {}]
    /\ liveGhost = NoStep

FreeHandlers == {h \in Handlers : handler[h].pc = "idle"}
FreeHandler == CHOOSE h \in FreeHandlers : \A g \in FreeHandlers : h <= g

\* the next target of sub.targets after index t that has `live` set, or 0
NextLiveTarget(t) ==
    IF \E u \in (t + 1)..Len(SubTargets) : SubTargets[u].live
    THEN CHOOSE u \in (t + 1)..Len(SubTargets) :
            /\ SubTargets[u].live
            /\ \A v \in (t + 1)..(u - 1) : ~SubTargets[v].live
    ELSE 0

\* DanmuListenerService.isConnected(roomId)
isConnected == pushLink = "open"

\* the invocation in slot h returns; startListening, which awaited the
\* first checkAllLiveStatus, then arms the recurring check timer
Return(h) ==
    /\ handler' = [handler EXCEPT ![h] = IdleHandler]
    /\ listener' = IF handler[h].initial
                   THEN [listener EXCEPT !.checkTimer = TRUE] ELSE listener

\* ghost: a notification of kind `op` for session s goes to target t
Sent(op, s, t) ==
    IF op = "start"
    THEN [liveLog EXCEPT !.startSent = @ \cup {<<s, t>>}]
    ELSE [liveLog EXCEPT !.endSent = @ \cup {<<s, t>>}]

\* handleLiveStart up to its first await, entered by the invocation in slot h
\* whose caller will assign `final` to room.isLive; r is the room as the
\* caller left it
handleLiveStart_noReturn(h, rec, r, ls, final) ==
    LET isBlocked == checkLiveFilter(ls.title) IN
    /\ liveGhost' = [op |-> "handleLiveStart", h |-> h, rejected |-> isBlocked,
                     wasBlocked |-> room.isBlocked]
    /\ room' = [r EXCEPT !.isBlocked = isBlocked, !.liveTime = now]
    /\ handler' = [handler EXCEPT ![h] =
                     [rec EXCEPT !.pc = "img", !.op = "start",
                                 !.isNowLive = final, !.session = ls.session]]
    /\ UNCHANGED <<listener, liveTimers, liveLog>>

handleLiveStart(h, rec, r, ls, final) ==
    LET isBlocked == checkLiveFilter(ls.title) IN
    /\ liveGhost' = [op |-> "handleLiveStart", h |-> h, rejected |-> isBlocked,
                     wasBlocked |-> room.isBlocked]
    /\ IF isBlocked
       THEN /\ room' = [r EXCEPT !.isBlocked = TRUE, !.isLive = final]
            /\ Return(h)
       ELSE /\ room' = [r EXCEPT !.isBlocked = FALSE, !.liveTime = now]
            /\ handler' = [handler EXCEPT ![h] =
                             [rec EXCEPT !.pc = "img", !.op = "start",
                                         !.isNowLive = final,
                                         !.session = ls.session]]
            /\ UNCHANGED listener
    /\ UNCHANGED <<liveTimers, liveLog>>

\* handleLiveEnd up to its first await
handleLiveEnd(h, rec, r, s, final) ==
    /\ liveGhost' = [op |-> "handleLiveEnd", h |-> h, rejected |-> FALSE,
                     wasBlocked |-> room.isBlocked]
    /\ IF r.isBlocked
       THEN /\ room' = [r EXCEPT !.isBlocked = FALSE, !.isLive = final]
            /\ Return(h)
            /\ UNCHANGED <<liveTimers, liveLog>>
       ELSE /\ room' = [r EXCEPT !.pushTimer = FALSE]
            /\ liveTimers' = IF r.pushTimer THEN liveTimers - 1 ELSE liveTimers
            /\ liveLog' = IF r.pushTimer
                          THEN [liveLog EXCEPT !.cancels = @ \cup {s}]
                          ELSE liveLog
            /\ handler' = [handler EXCEPT ![h] =
                             [rec EXCEPT !.pc = "img", !.op = "end",
                                         !.isNowLive = final, !.session = s]]
            /\ UNCHANGED listener

\* handleLiveStart / handleLiveEnd resumed after sendLiveNotification has
\* returned, and the caller's assignment to room.isLive after that
AfterSend(h) ==
    LET rec == handler[h] IN
    /\ IF rec.op = "start"
       THEN /\ liveTimers < MaxTimers
            /\ room' = [room EXCEPT !.pushTimer = TRUE, !.isLive = rec.isNowLive]
            /\ liveTimers' = liveTimers + 1
       ELSE /\ room' = [room EXCEPT !.liveTime = 0, !.isLive = rec.isNowLive]
            /\ UNCHANGED liveTimers
    /\ Return(h)


\* handleTitleChange(room, liveStatus): it has no await; the room it leaves
\* and the change of the number of armed intervals
handleTitleChange(r, ls) ==
    LET isBlocked == checkLiveFilter(ls.title)
        wasBlocked == r.isBlocked
    IN IF ~wasBlocked /\ isBlocked
       THEN [room |-> [r EXCEPT !.pushTimer = FALSE, !.isBlocked = TRUE],
             armed |-> IF r.pushTimer THEN -1 ELSE 0]
       ELSE IF wasBlocked /\ ~isBlocked
       THEN [room |-> [r EXCEPT !.pushTimer = TRUE, !.isBlocked = FALSE],
             armed |-> 1]
       ELSE [room |-> r, armed |-> 0]

\* checkAllLiveStatus up to its first await, run in slot h
checkAllLiveStatus(h, initial, useDanmaku, connected) ==
    LET r == isCurrentlyBlocked(status, now) IN
    /\ riskView' = r.ret
    /\ IF r.ret
       THEN /\ status' = shouldLogWarning(r.st, now).st
            /\ UNCHANGED handler
            /\ listener' = [listener EXCEPT
                              !.ready = TRUE,
                              !.checkTimer = IF initial THEN TRUE ELSE @]
       ELSE /\ status' = r.st
            /\ handler' = [handler EXCEPT ![h] =
                  [IdleHandler EXCEPT
                      !.kind = IF useDanmaku /\ connected THEN "sync" ELSE "check",
                      !.pc = "fetch", !.initial = initial]]
            /\ listener' = [listener EXCEPT !.ready = TRUE]
    /\ now' = Rebase(r.st)
    /\ UNCHANGED <<fresh, interleaved, lastOp>>

\* startListening up to its first await
StartListening ==
    /\ IF listener.isRunning
       THEN UNCHANGED listener
       ELSE listener' = [listener EXCEPT !.isRunning = TRUE]
    /\ liveGhost' = NoStep
    /\ UNCHANGED <<pushLink, room, upstream, handler, liveTimers, liveLog, riskVars>>
    /\ UNCHANGED <<filterVars, netVars, detVars>>

\* startListening resumed: initializeLiveRooms has created the room,
\* connectDanmaku has set useDanmaku to the result of connectRoom, and the
\* first checkAllLiveStatus begins
InitializeLiveRooms(useDanmaku) ==
    /\ listener.isRunning /\ ~listener.ready
    /\ room' = [isLive |-> FALSE, title |-> "", isBlocked |-> FALSE,
                liveTime |-> 0, pushTimer |-> FALSE, useDanmaku |-> useDanmaku]
    /\ pushLink' = IF useDanmaku THEN "open" ELSE "none"
    /\ checkAllLiveStatus(FreeHandler, TRUE, useDanmaku, useDanmaku)
    /\ liveGhost' = NoStep
    /\ UNCHANGED <<upstream, liveTimers, liveLog>>
    /\ UNCHANGED <<filterVars, netVars, detVars>>

\* the ctx.setInterval callback of startListening
PollTick ==
    /\ listener.checkTimer
    /\ FreeHandlers # {}
    /\ checkAllLiveStatus(FreeHandler, FALSE, room.useDanmaku, isConnected)
    /\ liveGhost' = NoStep
    /\ UNCHANGED <<pushLink, room, upstream, liveTimers, liveLog>>
    /\ UNCHANGED <<filterVars, netVars, detVars>>

\* checkLiveStatus / syncRoomStatus / handleDanmakuLiveStart resumed after
\* `await this.fetchLiveStatus(room.roomId)` with a success result
LiveFetchSucceeds(h) ==
    LET rec == handler[h]
        ls == upstream
        r1 == [room EXCEPT !.title = ls.title]
    IN
    /\ rec.pc = "fetch"
    /\ status' = IF rec.kind = "pushStart" THEN status ELSE recordSuccess(status)
    /\ UNCHANGED <<now, riskView, fresh, interleaved, lastOp, pushLink, upstream>>
    /\ IF rec.kind = "check"
       THEN LET wasLive == room.isLive
                isNowLive == ls.live
            IN IF ~wasLive /\ isNowLive
               THEN handleLiveStart(h, rec, r1, ls, isNowLive)
               ELSE IF wasLive /\ ~isNowLive
               THEN handleLiveEnd(h, rec, r1, ls.session, isNowLive)
               ELSE IF isNowLive /\ r1.title # ls.title
               THEN LET c == handleTitleChange(r1, ls) IN
                    /\ room' = [c.room EXCEPT !.isLive = isNowLive]
                    /\ liveTimers' = liveTimers + c.armed
                    /\ Return(h)
                    /\ liveGhost' = NoStep
                    /\ UNCHANGED liveLog
               ELSE /\ room' = [r1 EXCEPT !.isLive = isNowLive]
                    /\ Return(h)
                    /\ liveGhost' = NoStep
                    /\ UNCHANGED <<liveTimers, liveLog>>
       ELSE IF rec.kind = "sync"
       THEN IF room.isLive /\ r1.title # ls.title
            THEN LET c == handleTitleChange(r1, ls) IN
                 /\ room' = c.room
                 /\ liveTimers' = liveTimers + c.armed
                 /\ Return(h)
                 /\ liveGhost' = NoStep
                 /\ UNCHANGED liveLog
            ELSE /\ room' = r1
                 /\ Return(h)
                 /\ liveGhost' = NoStep
                 /\ UNCHANGED <<liveTimers, liveLog>>
       ELSE IF ls.live
            THEN handleLiveStart(h, rec, room, ls, TRUE)
            ELSE /\ Return(h)
                 /\ liveGhost' = NoStep
                 /\ UNCHANGED <<room, liveTimers, liveLog>>
    /\ UNCHANGED <<filterVars, netVars, detVars>>

\* ... with a failure result
LiveFetchFails_marksOffline(h, error) ==
    LET rec == handler[h] IN
    /\ rec.pc = "fetch"
    /\ status' = IF rec.kind = "pushStart" THEN status
                 ELSE recordFailure(status, error, now)
    /\ status'.consecutiveFailures <= MaxPollFailures
    /\ Return(h)
    /\ liveGhost' = NoStep
    /\ room' = IF rec.kind = "check" THEN [room EXCEPT !.isLive = FALSE] ELSE room
    /\ UNCHANGED <<now, riskView, fresh, interleaved, lastOp, pushLink, upstream,
                   liveTimers, liveLog>>
    /\ UNCHANGED <<filterVars, netVars, detVars>>

LiveFetchFails(h, error) ==
    LET rec == handler[h] IN
    /\ rec.pc = "fetch"
    /\ status' = IF rec.kind = "pushStart" THEN status
                 ELSE recordFailure(status, error, now)
    /\ status'.consecutiveFailures <= MaxPollFailures
    /\ Return(h)
    /\ liveGhost' = NoStep
    /\ UNCHANGED <<now, riskView, fresh, interleaved, lastOp, pushLink, room, upstream,
                   liveTimers, liveLog>>
    /\ UNCHANGED <<filterVars, netVars, detVars>>

\* sendLiveNotification resumed after `await generateLiveImage(...)`
LiveImageReturns(h, success) ==
    LET rec == handler[h]
        nt == NextLiveTarget(0)
    IN
    /\ rec.pc = "img"
    /\ IF success /\ nt # 0
       THEN /\ liveLog' = Sent(rec.op, rec.session, nt)
            /\ handler' = [handler EXCEPT ![h] = [rec EXCEPT !.pc = "send", !.t = nt]]
            /\ UNCHANGED <<listener, room, liveTimers>>
       ELSE /\ AfterSend(h)
            /\ UNCHANGED liveLog
    /\ liveGhost' = NoStep
    /\ UNCHANGED <<riskVars, pushLink, upstream>>
    /\ UNCHANGED <<filterVars, netVars, detVars>>

\* sendLiveNotification resumed after `await sendNotification(...)`
LiveSendReturns(h) ==
    LET rec == handler[h]
        nt == NextLiveTarget(rec.t)
    IN
    /\ rec.pc = "send"
    /\ IF nt # 0
       THEN /\ liveLog' = Sent(rec.op, rec.session, nt)
            /\ handler' = [handler EXCEPT ![h] = [rec EXCEPT !.t = nt]]
            /\ UNCHANGED <<listener, room, liveTimers>>
       ELSE /\ AfterSend(h)
            /\ UNCHANGED liveLog
    /\ liveGhost' = NoStep
    /\ UNCHANGED <<riskVars, pushLink, upstream>>
    /\ UNCHANGED <<filterVars, netVars, detVars>>

\* the push connection delivers a liveStart event: handleDanmakuLiveStart up
\* to its first await, then updateHeartbeat
PushLiveStart ==
    /\ listener.ready /\ pushLink # "none"
    /\ upstream.live
    /\ pushLink' = "open"
    /\ IF room.isLive
       THEN UNCHANGED handler
       ELSE /\ FreeHandlers # {}
            /\ handler' = [handler EXCEPT ![FreeHandler] =
                  [IdleHandler EXCEPT !.kind = "pushStart", !.pc = "fetch"]]
    /\ liveGhost' = NoStep
    /\ UNCHANGED <<listener, room, upstream, liveTimers, liveLog, riskVars>>
    /\ UNCHANGED <<filterVars, netVars, detVars>>

\* the push connection delivers a liveEnd event: handleDanmakuLiveEnd up to
\* its first await, then updateHeartbeat
PushLiveEnd ==
    /\ listener.ready /\ pushLink # "none"
    /\ ~upstream.live /\ upstream.session > 0
    /\ pushLink' = "open"
    /\ IF ~room.isLive
       THEN /\ liveGhost' = NoStep
            /\ UNCHANGED <<listener, room, handler, liveTimers, liveLog>>
       ELSE /\ FreeHandlers # {}
            /\ handleLiveEnd(FreeHandler, [IdleHandler EXCEPT !.kind = "pushEnd"],
                             room, upstream.session, FALSE)
    /\ UNCHANGED <<upstream, riskVars>>
    /\ UNCHANGED <<filterVars, netVars, detVars>>

\* the push connection stays silent for 5 heartbeat intervals
PushSilence ==
    /\ pushLink = "open"
    /\ pushLink' = "stale"
    /\ liveGhost' = NoStep
    /\ UNCHANGED <<listener, room, upstream, handler, liveTimers, liveLog, riskVars>>
    /\ UNCHANGED <<filterVars, netVars, detVars>>

\* upstream: the room goes live, changes its title, goes offline
GoLive(title) ==
    /\ ~upstream.live /\ upstream.session < MaxSessions
    /\ upstream' = [live |-> TRUE, title |-> title, session |-> upstream.session + 1]
    /\ liveGhost' = NoStep
    /\ UNCHANGED <<listener, pushLink, room, handler, liveTimers, liveLog, riskVars>>
    /\ UNCHANGED <<filterVars, netVars, detVars>>

ChangeTitle(title) ==
    /\ upstream.live /\ title # upstream.title
    /\ upstream' = [upstream EXCEPT !.title = title]
    /\ liveGhost' = NoStep
    /\ UNCHANGED <<listener, pushLink, room, handler, liveTimers, liveLog, riskVars>>
    /\ UNCHANGED <<filterVars, netVars, detVars>>

GoOffline ==
    /\ upstream.live
    /\ upstream' = [upstream EXCEPT !.live = FALSE]
    /\ liveGhost' = NoStep
    /\ UNCHANGED <<listener, pushLink, room, handler, liveTimers, liveLog, riskVars>>
    /\ UNCHANGED <<filterVars, netVars, detVars>>

\* time passes while a block is active (the clock is read only then)
LiveTick ==
    /\ status.isBlocked
    /\ now < status.blockStartTime + status.blockDuration
    /\ now' = status.blockStartTime + status.blockDuration
    /\ liveGhost' = NoStep
    /\ UNCHANGED <<status, riskView, fresh, interleaved, lastOp, listener, pushLink, room,
                   upstream, handler, liveTimers, liveLog>>
    /\ UNCHANGED <<filterVars, netVars, detVars>>



(***************************************************************************)
(* DanmuListenerService                                                    *)
(*                                                                         *)
(* The pool of push connections, one record per room.  A connectRoom call  *)
(* is cut where it awaits the API service (getLongRoomId, getMyselfInfo,   *)
(* getDanmuInfo touch no state of this service, so the three awaits are    *)
(* one position); a reconnect callback is cut at its 2-second wait.  The   *)
(* socket of a record opens, reports errors and closes as the library      *)
(* decides; a silence of five heartbeat intervals is an event of the       *)
(* environment too.  Timers fire in any order.                             *)
(***************************************************************************)
Rooms == 1..MaxRooms
\* the rooms an owner asks for again in SpecReconnect
Reasked == {1}

NoConnection ==
    [present |-> FALSE, isConnected |-> FALSE, reconnectCount |-> 0, socket |-> "none"]
\* the record connectRoom stores after startListen
NewConnection ==
    [present |-> TRUE, isConnected |-> FALSE, reconnectCount |-> 0, socket |-> "connecting"]

DanmuIdle ==
    /\ bridgeRunning = FALSE
    /\ connections = [r \in Rooms |-> NoConnection]
    /\ reconnectTimers = [r \in Rooms |-> 0]
    /\ errorTimers = [r \in Rooms |-> 0]
    /\ settling = [r \in Rooms |-> 0]
    /\ dialing = [r \in Rooms |-> 0]
    /\ dropped = [r \in Rooms |-> FALSE]
    /\ asked = [r \in Rooms |-> 0]
    /\ redials = [r \in Rooms |-> 0]
    /\ terminal = [r \in Rooms |-> FALSE]
    /\ danmuEvents = {}

RECURSIVE SumTo(_, _)
SumTo(f, n) == IF n = 0 THEN 0 ELSE f[n] + SumTo(f, n - 1)
\* the timers pending for all rooms together
Pending(timers) == SumTo(timers, MaxRooms)

\* connections.size
Size(conns) == Cardinality({r \in Rooms : conns[r].present})

\* disconnectRoom: closes the listener, deletes the record, emits `disconnected`
disconnectRoom(conns, r) ==
    IF conns[r].present
    THEN [conns |-> [conns EXCEPT ![r] = NoConnection], events |-> {<<r, "disconnected">>}]
    ELSE [conns |-> conns, events |-> {}]

\* handleConnectionError up to its return: the new pool, whether a reconnect
\* timer was set, the events emitted, whether the attempts exceeded the limit
handleConnectionError(conns, r) ==
    IF ~conns[r].present
    THEN [conns |-> conns, timer |-> FALSE, events |-> {}, exceeded |-> FALSE]
    ELSE LET reconnectCount == conns[r].reconnectCount + 1 IN
         IF reconnectCount > 3
         THEN [conns |-> disconnectRoom(conns, r).conns, timer |-> FALSE,
               events |-> disconnectRoom(conns, r).events, exceeded |-> TRUE]
         ELSE [conns |-> [conns EXCEPT ![r].isConnected = FALSE,
                                       ![r].reconnectCount = reconnectCount],
               timer |-> TRUE, events |-> {}, exceeded |-> FALSE]

\* the effect of a handleConnectionError call on the state
HandleError(conns, r) ==
    LET out == handleConnectionError(conns, r) IN
    /\ out.timer => Pending(reconnectTimers) < MaxReconnectTimers
    /\ connections' = out.conns
    /\ reconnectTimers' = IF out.timer THEN [reconnectTimers EXCEPT ![r] = @ + 1]
                          ELSE reconnectTimers
    /\ terminal' = IF out.exceeded THEN [terminal EXCEPT ![r] = TRUE] ELSE terminal

\* connectRoom up to its first await of the API service: the capacity check
\* and the disconnect of a record the room already has
connectRoom_within(limit, r) ==
    IF Size(connections) >= limit
    THEN /\ UNCHANGED <<connections, dialing, dropped>>
         /\ danmuEvents' = {}
    ELSE /\ connections' = disconnectRoom(connections, r).conns
         /\ danmuEvents' = disconnectRoom(connections, r).events
         /\ dialing[r] < MaxDialing
         /\ dialing' = [dialing EXCEPT ![r] = @ + 1]
         /\ dropped' = [dropped EXCEPT ![r] = @ \/ connections[r].present]

\* the same of the bridge as configured
connectRoom_begin(r) == connectRoom_within(maxConnections, r)

\* start()
DanmuStart ==
    /\ ~bridgeRunning
    /\ bridgeRunning' = TRUE
    /\ danmuEvents' = {}
    /\ UNCHANGED <<connections, reconnectTimers, errorTimers, settling, dialing, dropped,
                   asked, redials, terminal>>
    /\ UNCHANGED <<filterVars, riskVars, detVars, liveVars, httpVars, auxVars>>

\* stop(): every record is disconnected and the pool cleared
DanmuStop ==
    /\ bridgeRunning
    /\ bridgeRunning' = FALSE
    /\ connections' = [r \in Rooms |-> NoConnection]
    /\ danmuEvents' = {<<r, "disconnected">> : r \in {q \in Rooms : connections[q].present}}
    /\ UNCHANGED <<reconnectTimers, errorTimers, settling, dialing, dropped, asked, redials, terminal>>
    /\ UNCHANGED <<filterVars, riskVars, detVars, liveVars, httpVars, auxVars>>

\* the owner asks for a room: connectRoom(roomId), of a bridge configured
\* with `limit` connections and an owner that asks `asks` times per room
ConnectRoomWith(limit, asks, r) ==
    /\ asked[r] < asks
    /\ asked' = [asked EXCEPT ![r] = @ + 1]
    /\ connectRoom_within(limit, r)
    /\ terminal' = [terminal EXCEPT ![r] = FALSE]
    /\ UNCHANGED <<bridgeRunning, reconnectTimers, errorTimers, settling, redials>>
    /\ UNCHANGED <<filterVars, riskVars, detVars, liveVars, httpVars, auxVars>>

ConnectRoom(r) == ConnectRoomWith(maxConnections, MaxAsks, r)

\* what the API service and the listener library answer to one connectRoom
\* call: the cookie string, getMyselfInfo, getDanmuInfo, startListen
ApiAnswers ==
    [cookies : BOOLEAN, myself : {"ok", "failed", "no mid"}, danmuInfo : BOOLEAN,
     listenThrows : BOOLEAN]

\* the login test of connectRoom
LoggedIn(a) == a.cookies /\ a.myself = "ok"

\* connectRoom after getLongRoomId: the calls it makes, the value it
\* returns, whether it stores a record
connectRoom_rest_cookieOnly(a) ==
    IF ~a.cookies
    THEN [did |-> {}, result |-> FALSE, stored |-> FALSE]
    ELSE IF ~a.danmuInfo
    THEN [did |-> {"getDanmuInfo"}, result |-> FALSE, stored |-> FALSE]
    ELSE IF a.listenThrows
    THEN [did |-> {"getDanmuInfo", "startListen", "error"}, result |-> FALSE, stored |-> FALSE]
    ELSE [did |-> {"getDanmuInfo", "startListen"}, result |-> TRUE, stored |-> TRUE]

connectRoom_rest(a) ==
    IF ~LoggedIn(a)
    THEN [did |-> {}, result |-> FALSE, stored |-> FALSE]
    ELSE IF ~a.danmuInfo
    THEN [did |-> {"getDanmuInfo"}, result |-> FALSE, stored |-> FALSE]
    ELSE IF a.listenThrows
    THEN [did |-> {"getDanmuInfo", "startListen", "error"}, result |-> FALSE, stored |-> FALSE]
    ELSE [did |-> {"getDanmuInfo", "startListen"}, result |-> TRUE, stored |-> TRUE]

\* the API calls of a connectRoom return.  danmuEvents records what the
\* call was answered about the login, what it did and what it returned.
ConnectRoomReturns(r, a) ==
    LET out == connectRoom_rest(a) IN
    /\ dialing[r] > 0
    /\ dialing' = [dialing EXCEPT ![r] = @ - 1]
    /\ dropped' = [dropped EXCEPT ![r] = IF dialing[r] = 1 THEN FALSE ELSE @]
    /\ connections' = IF out.stored THEN [connections EXCEPT ![r] = NewConnection]
                      ELSE connections
    /\ danmuEvents' = {<<r, e>> : e \in out.did}
                         \cup {<<r, IF out.result THEN "returns true" ELSE "returns false">>}
                         \cup (IF LoggedIn(a) THEN {} ELSE {<<r, "not logged in">>})
    /\ UNCHANGED <<bridgeRunning, reconnectTimers, errorTimers, settling, asked,
                   redials, terminal>>
    /\ UNCHANGED <<filterVars, riskVars, detVars, liveVars, httpVars, auxVars>>

\* the owner calls disconnectRoom(roomId)
DisconnectRoom(r) ==
    /\ connections[r].present
    /\ connections' = disconnectRoom(connections, r).conns
    /\ danmuEvents' = disconnectRoom(connections, r).events
    /\ UNCHANGED <<bridgeRunning, reconnectTimers, errorTimers, settling, dialing, dropped,
                   asked, redials, terminal>>
    /\ UNCHANGED <<filterVars, riskVars, detVars, liveVars, httpVars, auxVars>>

\* onOpen of the room's handler
SocketOpen(r) ==
    /\ connections[r].socket = "connecting"
    /\ connections' = [connections EXCEPT ![r].socket = "open", ![r].isConnected = TRUE,
                                          ![r].reconnectCount = 0]
    /\ redials' = [redials EXCEPT ![r] = 0]
    /\ danmuEvents' = {<<r, "connected">>}
    /\ UNCHANGED <<bridgeRunning, reconnectTimers, errorTimers, settling, dialing, dropped,
                   asked, terminal>>
    /\ UNCHANGED <<filterVars, riskVars, detVars, liveVars, httpVars, auxVars>>

\* onClose of the room's handler
SocketClose(r) ==
    /\ connections[r].socket \in {"connecting", "open"}
    /\ LET closed == [connections EXCEPT ![r].socket = "closed", ![r].isConnected = FALSE] IN
       IF bridgeRunning
       THEN /\ HandleError(closed, r)
            /\ danmuEvents' = {<<r, "disconnected">>}
                                 \cup handleConnectionError(closed, r).events
       ELSE /\ connections' = closed
            /\ danmuEvents' = {<<r, "disconnected">>}
            /\ UNCHANGED <<reconnectTimers, terminal>>
    /\ UNCHANGED <<bridgeRunning, errorTimers, settling, dialing, dropped, asked, redials>>
    /\ UNCHANGED <<filterVars, riskVars, detVars, liveVars, httpVars, auxVars>>

\* onError of the room's handler: handleConnectionError is called 5 s later
SocketError(r) ==
    /\ connections[r].socket \in {"connecting", "open"}
    /\ danmuEvents' = {<<r, "error">>}
    /\ IF bridgeRunning
       THEN /\ Pending(errorTimers) < MaxErrorTimers
            /\ errorTimers' = [errorTimers EXCEPT ![r] = @ + 1]
       ELSE UNCHANGED errorTimers
    /\ UNCHANGED <<bridgeRunning, connections, reconnectTimers, settling, dialing, dropped,
                   asked, redials, terminal>>
    /\ UNCHANGED <<filterVars, riskVars, detVars, liveVars, httpVars, auxVars>>

\* the 5-second timer of onError fires
ErrorTimerFires(r) ==
    /\ errorTimers[r] > 0
    /\ errorTimers' = [errorTimers EXCEPT ![r] = @ - 1]
    /\ HandleError(connections, r)
    /\ danmuEvents' = handleConnectionError(connections, r).events
    /\ UNCHANGED <<bridgeRunning, settling, dialing, dropped, asked, redials>>
    /\ UNCHANGED <<filterVars, riskVars, detVars, liveVars, httpVars, auxVars>>

\* checkConnections finds the room silent for five heartbeat intervals
HeartbeatTimeout(r) ==
    /\ bridgeRunning
    /\ connections[r].present
    /\ connections[r].isConnected
    /\ LET timedOut == [connections EXCEPT ![r].isConnected = FALSE] IN
       /\ HandleError(timedOut, r)
       /\ danmuEvents' = handleConnectionError(timedOut, r).events
    /\ UNCHANGED <<bridgeRunning, errorTimers, settling, dialing, dropped, asked, redials>>
    /\ UNCHANGED <<filterVars, riskVars, detVars, liveVars, httpVars, auxVars>>

\* the reconnect timer of handleConnectionError fires: the record is
\* disconnected and the callback waits 2 s
ReconnectTimerFires(r) ==
    /\ reconnectTimers[r] > 0
    /\ reconnectTimers' = [reconnectTimers EXCEPT ![r] = @ - 1]
    /\ IF bridgeRunning /\ connections[r].present
       THEN /\ connections' = disconnectRoom(connections, r).conns
            /\ danmuEvents' = disconnectRoom(connections, r).events
            /\ settling[r] < MaxDialing
            /\ settling' = [settling EXCEPT ![r] = @ + 1]
       ELSE /\ danmuEvents' = {}
            /\ UNCHANGED <<connections, settling>>
    /\ UNCHANGED <<bridgeRunning, errorTimers, dialing, dropped, asked, redials, terminal>>
    /\ UNCHANGED <<filterVars, riskVars, detVars, liveVars, httpVars, auxVars>>

\* the 2-second wait is over: the callback redials with connectRoom(roomId)
RedialWith(limit, r) ==
    /\ settling[r] > 0
    /\ redials[r] < MaxRedials
    /\ settling' = [settling EXCEPT ![r] = @ - 1]
    /\ redials' = [redials EXCEPT ![r] = @ + 1]
    /\ connectRoom_within(limit, r)
    /\ UNCHANGED <<bridgeRunning, reconnectTimers, errorTimers, asked, terminal>>
    /\ UNCHANGED <<filterVars, riskVars, detVars, liveVars, httpVars, auxVars>>

Redial(r) == RedialWith(maxConnections, r)



(***************************************************************************)
(* BilibiliHttpService                                                     *)
(*                                                                         *)
(* One service instance and MaxCallers concurrent callers of get / post    *)
(* and getWithRetry / postWithRetry (post differs from get only in the     *)
(* method of the upstream request).  `call[c]` is the position of caller   *)
(* c's invocation: in the sleep of enforceRateLimit, awaiting the answer of *)
(* ctx.http, in the backoff sleep of smartRetry, or settled.  Timers fire  *)
(* on time: the clock `hnow` moves to the next pending wake-up.            *)
(***************************************************************************)
HTTP_CONFIG ==
    [MIN_REQUEST_INTERVAL            |-> 3000,
     MAX_REQUEST_INTERVAL            |-> 5000,
     STARTUP_GRACE_PERIOD            |-> 30000,
     NORMAL_GRACE_PERIOD             |-> 300000,
     DEFAULT_MAX_RETRIES             |-> 3,
     BASE_RETRY_DELAY                |-> 1000,
     MAX_RETRY_DELAY                 |-> 10000,
     RISK_CONTROL_MIN_DELAY          |-> 10000,
     RISK_CONTROL_MAX_DELAY          |-> 30000,
     RISK_CONTROL_EXTENDED_MIN_DELAY |-> 30000,
     RISK_CONTROL_EXTENDED_MAX_DELAY |-> 90000]

\* Date.now() when the service is constructed; lastRequestTime starts at 0,
\* which lies further back than any required spacing.
startupTime == 1000000

\* Math.random() in thousandths: 0 and the largest value below 1
Random == {0, 999}
Times(r, x) == (r * x) \div 1000

RetryChoices == {1, HTTP_CONFIG.DEFAULT_MAX_RETRIES}

HttpCallers == 1..MaxCallers

\* An error is its `code` property and its message; the message is modelled
\* by the substrings the code looks for in it: "ctx_stopped" is the phrase
\* shared by the two scope errors of the service, "risk_text" the phrase of
\* the risk-control message, `api` the code inside an "API error (code):"
\* prefix.
NoError       == [code |-> "none", api |-> "none", msg |-> {"no error"}]
ErrScopeGet   == [code |-> "none", api |-> "none", msg |-> {"ctx_stopped", "cannot request"}]
ErrScopeRetry == [code |-> "none", api |-> "none", msg |-> {"ctx_stopped", "stop retrying"}]
ErrRestarting == [code |-> "none", api |-> "none", msg |-> {"restarting"}]
\* what ctx.http rejects with
UpRisk        == [code |-> "none", api |-> "none", msg |-> {"risk_text", "-352"}]
UpNetwork     == [code |-> "none", api |-> "none", msg |-> {"Network error"}]
UpApi404      == [code |-> "none", api |-> "-404", msg |-> {"-404"}]
UpInactive    == [code |-> "INACTIVE_EFFECT", api |-> "none", msg |-> {"inactive"}]
UpErrors      == {UpRisk, UpNetwork, UpApi404}

retryableCodes == {"-503", "-509", "-799", "-500", "-352"}

\* the default retryCondition of smartRetry
retryCondition(error) ==
    IF error.code = "INACTIVE_EFFECT" \/ Includes(error.msg, "ctx_stopped") THEN FALSE
    ELSE IF error.api # "none" THEN error.api \in retryableCodes
    ELSE IF Includes(error.msg, "-352") \/ Includes(error.msg, "risk_text") THEN TRUE
    ELSE IF error.code # "none" THEN error.code \in retryableCodes
    ELSE TRUE

rotateUserAgent(index) == (index + 1) % NumUserAgents

\* enforceRateLimit: the spacing required at time t
randomInterval(t, r1, r2) ==
    LET base == Times(r1, HTTP_CONFIG.MAX_REQUEST_INTERVAL
                            - HTTP_CONFIG.MIN_REQUEST_INTERVAL + 1)
                + HTTP_CONFIG.MIN_REQUEST_INTERVAL
        timeSinceStartup == t - startupTime
    IN  IF timeSinceStartup < HTTP_CONFIG.STARTUP_GRACE_PERIOD
        THEN Max(base, 2000 + Times(r2, 2000))
        ELSE IF timeSinceStartup < HTTP_CONFIG.NORMAL_GRACE_PERIOD
        THEN Max(base, 5000 + Times(r2, 3000))
        ELSE Max(base, HTTP_CONFIG.MIN_REQUEST_INTERVAL)

\* smartRetry: the delay before the retry that follows a failed attempt
retryDelay_noExtension(attempt, error, r1, r2) ==
    LET delay == Min(HTTP_CONFIG.BASE_RETRY_DELAY * Pow2(attempt),
                     HTTP_CONFIG.MAX_RETRY_DELAY)
    IN  IF Includes(error.msg, "-352")
        THEN Max(delay, HTTP_CONFIG.RISK_CONTROL_MIN_DELAY
                        + Times(r1, HTTP_CONFIG.RISK_CONTROL_MAX_DELAY
                                    - HTTP_CONFIG.RISK_CONTROL_MIN_DELAY))
        ELSE delay

retryDelay(attempt, error, r1, r2) ==
    LET delay == Min(HTTP_CONFIG.BASE_RETRY_DELAY * Pow2(attempt),
                     HTTP_CONFIG.MAX_RETRY_DELAY)
        risk  == Max(delay, HTTP_CONFIG.RISK_CONTROL_MIN_DELAY
                            + Times(r1, HTTP_CONFIG.RISK_CONTROL_MAX_DELAY
                                        - HTTP_CONFIG.RISK_CONTROL_MIN_DELAY))
    IN  IF ~Includes(error.msg, "-352") THEN delay
        ELSE IF attempt >= 1
        THEN Max(risk, HTTP_CONFIG.RISK_CONTROL_EXTENDED_MIN_DELAY
                       + Times(r2, HTTP_CONFIG.RISK_CONTROL_EXTENDED_MAX_DELAY
                                   - HTTP_CONFIG.RISK_CONTROL_EXTENDED_MIN_DELAY))
        ELSE risk

IdleCall ==
    [pc |-> "idle", retry |-> FALSE, maxRetries |-> 0, attempt |-> 0,
     wake |-> 0, delay |-> 0, invoked |-> 0, lastError |-> NoError,
     thrown |-> NoError, result |-> "none"]

HttpIdle ==
    /\ hnow = startupTime
    /\ scopeActive = TRUE
    /\ lastRequestTime = 0
    /\ currentUserAgentIndex = 0
    /\ call = [c \in HttpCallers |-> IdleCall]
    /\ started = 0
    /\ lastIssue = 0

\* the call settles: `return response` or `throw`
Resolve(rec) ==
    [rec EXCEPT !.pc = "done", !.result = "ok", !.wake = 0, !.delay = 0, !.attempt = 0]
Reject(rec, error) ==
    [rec EXCEPT !.pc = "done", !.result = "rejected", !.lastError = error,
                !.wake = 0, !.delay = 0, !.attempt = 0]

\* smartRetry: the catch block of one attempt
smartRetry_catch_extraAttempt(rec, error, r1, r2) ==
    IF rec.attempt = rec.maxRetries + 1 \/ ~retryCondition(error)
    THEN Reject(rec, error)
    ELSE LET delay == retryDelay(rec.attempt, error, r1, r2) IN
         [rec EXCEPT !.pc = "backoff", !.lastError = error,
                     !.delay = delay, !.wake = hnow + delay]

smartRetry_catch(rec, error, r1, r2) ==
    IF rec.attempt = rec.maxRetries \/ ~retryCondition(error)
    THEN Reject(rec, error)
    ELSE LET delay == retryDelay(rec.attempt, error, r1, r2) IN
         [rec EXCEPT !.pc = "backoff", !.lastError = error,
                     !.delay = delay, !.wake = hnow + delay]

\* the catch block calls rotateUserAgent before the sleep
RotatesOnCatch(rec, error) ==
    /\ rec.retry
    /\ rec.pc = "backoff"
    /\ Includes(error.msg, "-352")

\* requestFn rejected, or the loop body threw, with `error`: a plain get /
\* post rejects; under smartRetry the catch block runs.  `thrown` (ghost)
\* is the error of this attempt.
Throw(c, rec, error, r1, r2) ==
    LET next == IF rec.retry THEN smartRetry_catch(rec, error, r1, r2)
                ELSE Reject(rec, error)
    IN  /\ call' = [call EXCEPT ![c] = [next EXCEPT !.thrown = error]]
        /\ currentUserAgentIndex' =
               IF RotatesOnCatch(next, error)
               THEN rotateUserAgent(currentUserAgentIndex)
               ELSE currentUserAgentIndex

\* One attempt up to its first suspension: the scope check at the head of
\* the smartRetry loop, the scope check of get / post, and enforceRateLimit
\* up to its sleep; when no sleep is needed, on to getHeaders (which rotates
\* the User-Agent at random) and the request.
Attempt(c, rec, r1, r2, rotate) ==
    IF ~scopeActive
    THEN /\ Throw(c, rec, IF rec.retry THEN ErrScopeRetry ELSE ErrScopeGet, r1, r2)
         /\ UNCHANGED <<lastRequestTime, lastIssue>>
    ELSE LET interval == randomInterval(hnow, r1, r2)
             timeSinceLastRequest == hnow - lastRequestTime
             entered == [rec EXCEPT !.invoked = @ + 1, !.delay = 0]
         IN  IF timeSinceLastRequest < interval
             THEN /\ call' = [call EXCEPT ![c] =
                         [entered EXCEPT !.pc = "rateSleep",
                                         !.wake = hnow + (interval - timeSinceLastRequest)]]
                  /\ UNCHANGED <<lastRequestTime, currentUserAgentIndex, lastIssue>>
             ELSE /\ call' = [call EXCEPT ![c] =
                         [entered EXCEPT !.pc = "request", !.wake = 0]]
                  /\ lastRequestTime' = hnow
                  /\ currentUserAgentIndex' =
                         IF rotate THEN rotateUserAgent(currentUserAgentIndex)
                         ELSE currentUserAgentIndex
                  /\ lastIssue' = hnow

\* a new call takes the lowest free slot
FreeCallers == {c \in HttpCallers : call[c].pc = "idle"}
FreeCaller  == IF FreeCallers = {} THEN 0
               ELSE CHOOSE c \in FreeCallers : \A d \in FreeCallers : c <= d

\* a caller invokes get / post (retry = FALSE) or getWithRetry /
\* postWithRetry with retryOptions.maxRetries
HttpCall(c, retry, maxRetries, r1, r2, rotate) ==
    /\ c = FreeCaller
    /\ started < MaxCalls
    /\ started' = started + 1
    /\ Attempt(c, [IdleCall EXCEPT !.retry = retry, !.maxRetries = maxRetries],
               r1, r2, rotate)
    /\ UNCHANGED <<hnow, scopeActive>>
    /\ UNCHANGED <<filterVars, riskVars, detVars, liveVars, danmuVars, auxVars>>

\* the sleep of enforceRateLimit ends and get / post goes on: getHeaders,
\* then the request
HttpIssue(c, rotate) ==
    /\ call[c].pc = "rateSleep"
    /\ hnow >= call[c].wake
    /\ lastRequestTime' = hnow
    /\ currentUserAgentIndex' = IF rotate THEN rotateUserAgent(currentUserAgentIndex)
                                ELSE currentUserAgentIndex
    /\ call' = [call EXCEPT ![c].pc = "request", ![c].wake = 0]
    /\ lastIssue' = hnow
    /\ UNCHANGED <<hnow, scopeActive, started>>
    /\ UNCHANGED <<filterVars, riskVars, detVars, liveVars, danmuVars, auxVars>>

\* ctx.http answers
HttpSucceeds(c) ==
    /\ call[c].pc = "request"
    /\ call' = [call EXCEPT ![c] = Resolve(call[c])]
    /\ UNCHANGED <<hnow, scopeActive, lastRequestTime, currentUserAgentIndex,
                   started, lastIssue>>
    /\ UNCHANGED <<filterVars, riskVars, detVars, liveVars, danmuVars, auxVars>>

\* ctx.http rejects; a torn-down scope makes it reject with INACTIVE_EFFECT,
\* which get / post replaces by their own error
HttpFails(c, error, r1, r2) ==
    /\ call[c].pc = "request"
    /\ error = UpInactive => ~scopeActive
    /\ Throw(c, call[c], IF error.code = "INACTIVE_EFFECT" THEN ErrRestarting ELSE error,
             r1, r2)
    /\ UNCHANGED <<hnow, scopeActive, lastRequestTime, started, lastIssue>>
    /\ UNCHANGED <<filterVars, riskVars, detVars, liveVars, danmuVars, auxVars>>

\* the backoff sleep of smartRetry ends: the next iteration of the loop
HttpRetry(c, r1, r2, rotate) ==
    /\ call[c].pc = "backoff"
    /\ hnow >= call[c].wake
    /\ Attempt(c, [call[c] EXCEPT !.attempt = @ + 1], r1, r2, rotate)
    /\ UNCHANGED <<hnow, scopeActive, started>>
    /\ UNCHANGED <<filterVars, riskVars, detVars, liveVars, danmuVars, auxVars>>

\* the caller takes the outcome of its call
HttpReturn(c) ==
    /\ call[c].pc = "done"
    /\ call' = [call EXCEPT ![c] = IdleCall]
    /\ UNCHANGED <<hnow, scopeActive, lastRequestTime, currentUserAgentIndex,
                   started, lastIssue>>
    /\ UNCHANGED <<filterVars, riskVars, detVars, liveVars, danmuVars, auxVars>>

\* the plugin is disposed: ctx.scope.isActive becomes false
HttpDispose ==
    /\ scopeActive
    /\ scopeActive' = FALSE
    /\ UNCHANGED <<hnow, lastRequestTime, currentUserAgentIndex, call, started, lastIssue>>
    /\ UNCHANGED <<filterVars, riskVars, detVars, liveVars, danmuVars, auxVars>>

\* Time passes, up to the next wake-up; while no call is in progress, up to
\* the end of a grace period of enforceRateLimit.  The service reads the
\* clock only in differences: against startupTime, where every value past
\* NORMAL_GRACE_PERIOD behaves alike, and against lastRequestTime, where every
\* value past the largest spacing behaves alike.  The clock is therefore
\* re-based once it has passed the grace periods, and timestamps older than
\* the differences that matter are kept at that age.
Sleepers == {c \in HttpCallers : call[c].pc \in {"rateSleep", "backoff"}}
GracePeriods == {HTTP_CONFIG.STARTUP_GRACE_PERIOD, HTTP_CONFIG.NORMAL_GRACE_PERIOD}
MaxSpacing == Max(HTTP_CONFIG.MAX_REQUEST_INTERVAL, 5000 + 3000)
HttpAdvance(target) ==
    LET shift == Max(0, target - (startupTime + HTTP_CONFIG.NORMAL_GRACE_PERIOD)) IN
    /\ hnow' = target - shift
    /\ call' = [c \in HttpCallers |->
                   IF c \in Sleepers THEN [call[c] EXCEPT !.wake = @ - shift] ELSE call[c]]
    /\ lastRequestTime' = Max(lastRequestTime - shift, (target - shift) - MaxSpacing)
    /\ lastIssue' = Max(lastIssue - shift,
                        (target - shift) - HTTP_CONFIG.MIN_REQUEST_INTERVAL)
HttpTick ==
    /\ \A c \in Sleepers : call[c].wake > hnow
    /\ IF Sleepers # {}
       THEN \E c \in Sleepers :
               /\ \A d \in Sleepers : call[c].wake <= call[d].wake
               /\ HttpAdvance(call[c].wake)
       ELSE \E period \in GracePeriods :
               /\ FreeCallers = HttpCallers
               /\ hnow < startupTime + period
               /\ HttpAdvance(startupTime + period)
    /\ UNCHANGED <<scopeActive, currentUserAgentIndex, started>>
    /\ UNCHANGED <<filterVars, riskVars, detVars, liveVars, danmuVars, auxVars>>

(***************************************************************************)
(* BilibiliWbi                                                             *)
(*                                                                         *)
(* The cache of the signing key pair.  A key pair is an abstract id (the   *)
(* pair the upstream serves at the time of the fetch), 0 stands for null.  *)
(* getWbiKeys is cut at its await of httpService.getWithRetry; getWbi is   *)
(* getWbiKeys followed by the pure signature.                              *)
(***************************************************************************)
WBI_CONFIG == [CACHE_DURATION |-> 5 * 60 * 1000]

WbiCallers == 1..MaxWbiCallers
KeyPairs   == 1..MaxKeyPairs
NoKeys     == 0
WbiTickMs  == 150000
wbiStart   == 1000000

NoResult == [kind |-> "none", keys |-> NoKeys]
IdleWbiCall == [pc |-> "idle", result |-> NoResult]

WbiIdle ==
    /\ wbiKeys = NoKeys
    /\ wbiKeysExpiry = 0
    /\ wbiNow = wbiStart
    /\ wbiCall = [c \in WbiCallers |-> IdleWbiCall]
    /\ wbiEver = FALSE
    /\ wbiPopulated = FALSE

\* the cache test at the head of getWbiKeys
cacheValid_noCache(keys, expiry, t) == FALSE

cacheValid(keys, expiry, t) == keys # NoKeys /\ t < expiry

\* the catch block of getWbiKeys: the stale pair if there is one
getWbiKeys_catch_noFallback(keys) == [kind |-> "throws", keys |-> NoKeys]

getWbiKeys_catch(keys) ==
    IF keys # NoKeys THEN [kind |-> "keys", keys |-> keys]
    ELSE [kind |-> "throws", keys |-> NoKeys]

\* getWbiKeys up to its return from the cache or its fetch request
WbiGet(c) ==
    /\ wbiCall[c].pc = "idle"
    /\ wbiCall' = [wbiCall EXCEPT ![c] =
          IF cacheValid(wbiKeys, wbiKeysExpiry, wbiNow)
          THEN [pc |-> "done", result |-> [kind |-> "keys", keys |-> wbiKeys]]
          ELSE [pc |-> "fetch", result |-> NoResult]]
    /\ UNCHANGED <<wbiKeys, wbiKeysExpiry, wbiNow, wbiEver, wbiPopulated>>
    /\ UNCHANGED notWbi

\* the nav request answers with the key pair k
WbiFetchSucceeds(c, k) ==
    /\ wbiCall[c].pc = "fetch"
    /\ wbiKeys' = k
    /\ wbiKeysExpiry' = wbiNow + WBI_CONFIG.CACHE_DURATION
    /\ wbiCall' = [wbiCall EXCEPT ![c] =
          [pc |-> "done", result |-> [kind |-> "keys", keys |-> k]]]
    /\ wbiEver' = TRUE
    /\ wbiPopulated' = TRUE
    /\ UNCHANGED wbiNow
    /\ UNCHANGED notWbi

\* the nav request fails, or its answer carries no wbi_img
WbiFetchFails(c) ==
    /\ wbiCall[c].pc = "fetch"
    /\ wbiCall' = [wbiCall EXCEPT ![c] = [pc |-> "done", result |-> getWbiKeys_catch(wbiKeys)]]
    /\ UNCHANGED <<wbiKeys, wbiKeysExpiry, wbiNow, wbiEver, wbiPopulated>>
    /\ UNCHANGED notWbi

\* the caller has its answer
WbiReturn(c) ==
    /\ wbiCall[c].pc = "done"
    /\ wbiCall' = [wbiCall EXCEPT ![c] = IdleWbiCall]
    /\ UNCHANGED <<wbiKeys, wbiKeysExpiry, wbiNow, wbiEver, wbiPopulated>>
    /\ UNCHANGED notWbi

\* clearCache, also reached through BilibiliApiService.resetServiceState
WbiClearCache ==
    /\ wbiKeys' = NoKeys
    /\ wbiKeysExpiry' = 0
    /\ wbiPopulated' = FALSE
    /\ UNCHANGED <<wbiNow, wbiCall, wbiEver>>
    /\ UNCHANGED notWbi

WbiTick ==
    /\ wbiNow < wbiStart + MaxWbiTicks * WbiTickMs
    /\ wbiNow' = wbiNow + WbiTickMs
    /\ UNCHANGED <<wbiKeys, wbiKeysExpiry, wbiCall, wbiEver, wbiPopulated>>
    /\ UNCHANGED notWbi

(***************************************************************************)
(* BilibiliApiService                                                      *)
(*                                                                         *)
(* The eight operations, each cut at its awaits of wbiService.getWbi and   *)
(* httpService.getWithRetry.  An answer of the HTTP service is a response  *)
(* body (its code, and how much of `data` it carries) or a rejection with  *)
(* one of the errors of the HTTP service; it comes at the attempt of       *)
(* smartRetry that produced it: a response at the first attempt that gets  *)
(* one, a retryable rejection at the last attempt only.  The result of an  *)
(* operation is the envelope it resolves to, or the error it rejects with. *)
(***************************************************************************)
ApiCallers == 1..MaxApiCallers

ApiOps == {"getLoginStatus", "getUserInfo", "getUserDynamics", "getLiveRoomInfo",
           "getRoomIdByUid", "getLongRoomId", "getDanmuInfo", "getMyselfInfo"}
SignedOps == {"getUserInfo", "getUserDynamics"}

API_RESPONSE_CODES == [SUCCESS |-> "0", NOT_LOGIN |-> "-101", RISK_CONTROL |-> "-352"]

\* `data` of a response: with the fields the operation reads, without them,
\* or undefined
ApiData == {"full", "partial", "none"}
ApiAttempts == 0..HTTP_CONFIG.DEFAULT_MAX_RETRIES
ApiResponses ==
    [kind : {"response"}, code : {"0", "-101", "-352"}, data : ApiData, error : {NoError},
     attempt : ApiAttempts]
ApiRejections ==
    {a \in [kind : {"rejects"}, code : {"none"}, data : {"none"},
            error : {UpNetwork, UpRisk, ErrScopeRetry, ErrRestarting, UpInactive},
            attempt : ApiAttempts] :
        retryCondition(a.error) => a.attempt = HTTP_CONFIG.DEFAULT_MAX_RETRIES}
ApiAnswersHttp == ApiResponses \cup ApiRejections

ErrType    == [code |-> "none", api |-> "none", msg |-> {"TypeError"}]
ErrSigning == [code |-> "none", api |-> "none", msg |-> {"wbi keys"}]

Success == [kind |-> "envelope", success |-> TRUE, error |-> {}]
Failure(message) == [kind |-> "envelope", success |-> FALSE, error |-> message]
Rejected(error) == [kind |-> "throws", success |-> FALSE, error |-> error.msg]
NoEnvelope == [kind |-> "none", success |-> FALSE, error |-> {}]

\* handleApiError: always throws, the message carries the code
handleApiError(response) ==
    [code |-> "none", api |-> response.code, msg |-> {response.code}]

\* the catch block of an operation
catchBlock_rethrows(op, error) == Rejected(error)

catchBlock(op, error) ==
    IF op = "getLoginStatus"
       /\ (error.code = "INACTIVE_EFFECT" \/ Includes(error.msg, "ctx_stopped"))
    THEN Failure({"restarting"})
    ELSE Failure(error.msg)

\* the try block of an operation from the answer of its request on: the
\* position it goes to, the envelope it returns, or the error it throws
Returns(result) == [next |-> "done", result |-> result, throws |-> FALSE, error |-> NoError]
GoesOn(pc) == [next |-> pc, result |-> NoEnvelope, throws |-> FALSE, error |-> NoError]
Throws(error) == [next |-> "done", result |-> NoEnvelope, throws |-> TRUE, error |-> error]

tryBlock(op, pc, first, a) ==
    LET ok == a.code = API_RESPONSE_CODES.SUCCESS IN
    IF a.kind = "rejects" THEN Throws(a.error)
    ELSE CASE op = "getLoginStatus" ->
                IF ok /\ a.data = "none" THEN Throws(ErrType) ELSE Returns(Success)
           [] op = "getUserInfo" /\ pc = "request" ->
                IF ~ok THEN Throws(handleApiError(a)) ELSE GoesOn("stats")
           [] op = "getUserInfo" /\ pc = "stats" ->
                IF first # "full" \/ (ok /\ a.data = "none")
                THEN Throws(ErrType) ELSE Returns(Success)
           [] op \in {"getUserDynamics", "getLiveRoomInfo", "getDanmuInfo"} ->
                IF ~ok THEN Throws(handleApiError(a))
                ELSE IF a.data = "none" THEN Throws(ErrType) ELSE Returns(Success)
           [] op = "getMyselfInfo" ->
                IF ~ok THEN Throws(handleApiError(a)) ELSE Returns(Success)
           [] op = "getRoomIdByUid" /\ pc = "request" ->
                IF ok /\ a.data = "full" THEN GoesOn("long")
                ELSE Returns(Failure({"no room"}))
           [] op = "getRoomIdByUid" /\ pc = "long" ->
                Returns(Success)
           [] op = "getLongRoomId" ->
                IF ok /\ a.data = "full" THEN Returns(Success)
                ELSE Returns(Failure({"no long id"}))

\* an operation from an answer on, its catch block included
operation(op, pc, first, a) ==
    LET out == tryBlock(op, pc, first, a) IN
    IF out.throws THEN [next |-> "done", result |-> catchBlock(op, out.error)]
    ELSE [next |-> out.next, result |-> out.result]

IdleApiCall ==
    [op |-> "none", pc |-> "idle", first |-> "none", result |-> NoEnvelope, attempt |-> 0]

ApiIdle == apiCall = [c \in ApiCallers |-> IdleApiCall]

\* an operation is called
ApiCall(c, op) ==
    /\ apiCall[c].pc = "idle"
    /\ apiCall' = [apiCall EXCEPT ![c] =
          IF op = "getLoginStatus" /\ ~scopeActive
          THEN [IdleApiCall EXCEPT !.op = op, !.pc = "done",
                                   !.result = Failure({"restarting"})]
          ELSE [IdleApiCall EXCEPT !.op = op,
                                   !.pc = IF op \in SignedOps THEN "sign" ELSE "request"]]
    /\ UNCHANGED notApi

\* getWbi returns the signed query, or throws for want of keys
ApiSigned(c, signed) ==
    /\ apiCall[c].pc = "sign"
    /\ LET rec == apiCall[c] IN
       apiCall' = [apiCall EXCEPT ![c] =
          IF signed THEN [rec EXCEPT !.pc = "request"]
          ELSE [rec EXCEPT !.pc = "done", !.result = catchBlock(rec.op, ErrSigning)]]
    /\ UNCHANGED notApi

\* getWithRetry answers the request the operation is waiting for
ApiAnswered(c, a) ==
    /\ apiCall[c].pc \in {"request", "stats", "long"}
    /\ LET rec == apiCall[c]
           out == operation(rec.op, rec.pc, rec.first, a)
       IN  apiCall' = [apiCall EXCEPT ![c] =
              [rec EXCEPT !.pc = out.next, !.result = out.result,
                          !.attempt = a.attempt,
                          !.first = IF rec.pc = "request" /\ out.next # "done"
                                    THEN a.data ELSE rec.first]]
    /\ UNCHANGED notApi

\* the caller has its envelope
ApiReturn(c) ==
    /\ apiCall[c].pc = "done"
    /\ apiCall' = [apiCall EXCEPT ![c] = IdleApiCall]
    /\ UNCHANGED notApi

(***************************************************************************)
(* NotificationManager                                                     *)
(*                                                                         *)
(* sendNotification to one target, cut at the await of bot.sendMessage     *)
(* inside sendMessageWithRetry.  withRetry is called with retries = 1, so  *)
(* it makes one attempt and throws its error.  For the error message       *)
(* 'this._request is not a function' sendMessageWithRetry sets a 2-second  *)
(* timer that calls sendMessageWithRetry again, and returns.               *)
(***************************************************************************)
Notifiers == 1..MaxNotifiers

\* how bot.sendMessage ends
SendOutcomes == {"sent", "request bug", "fails"}

IdleNotify == [pc |-> "idle", chain |-> "none", attempts |-> 0, result |-> NoEnvelope]

NotifyIdle == notifyCall = [n \in Notifiers |-> IdleNotify]

\* sendMessageWithRetry after its attempt: whether it resolves, and whether
\* it has set the timer for another call of itself
sendMessageWithRetry(outcome) ==
    CASE outcome = "sent"        -> [resolves |-> TRUE,  timer |-> FALSE]
      [] outcome = "request bug" -> [resolves |-> TRUE,  timer |-> TRUE]
      [] outcome = "fails"       -> [resolves |-> FALSE, timer |-> FALSE]

\* sendNotification(data) up to bot.sendMessage
SendNotification(n, target, bot) ==
    /\ notifyCall[n].pc = "idle"
    /\ notifyCall' = [notifyCall EXCEPT ![n] =
          IF ~target THEN [IdleNotify EXCEPT !.pc = "done", !.result = Success]
          ELSE IF ~bot THEN [IdleNotify EXCEPT !.pc = "done", !.result = Failure({"no bot"})]
          ELSE [IdleNotify EXCEPT !.pc = "send", !.attempts = 1]]
    /\ UNCHANGED notNotify

\* bot.sendMessage ends while sendNotification awaits it
NotifySendEnds(n, outcome) ==
    /\ notifyCall[n].pc = "send"
    /\ LET out == sendMessageWithRetry(outcome) IN
       notifyCall' = [notifyCall EXCEPT ![n] =
          [@ EXCEPT !.pc = "done",
                    !.chain = IF out.timer THEN "timer" ELSE "none",
                    !.result = IF out.resolves THEN Success ELSE Failure({"send failed"})]]
    /\ UNCHANGED notNotify

\* the 2-second timer fires: sendMessageWithRetry calls bot.sendMessage again
NotifyTimerFires(n) ==
    /\ notifyCall[n].chain = "timer"
    /\ notifyCall[n].attempts < MaxAttempts
    /\ notifyCall' = [notifyCall EXCEPT ![n] =
          [@ EXCEPT !.chain = "send", !.attempts = @ + 1]]
    /\ UNCHANGED notNotify

\* bot.sendMessage ends in the call made by the timer
NotifyResendEnds(n, outcome) ==
    /\ notifyCall[n].chain = "send"
    /\ notifyCall' = [notifyCall EXCEPT ![n] =
          [@ EXCEPT !.chain = IF sendMessageWithRetry(outcome).timer THEN "timer" ELSE "none"]]
    /\ UNCHANGED notNotify

\* the caller has its result and the deliveries of the notification are over
NotifyReturn(n) ==
    /\ notifyCall[n].pc = "done"
    /\ notifyCall[n].chain = "none"
    /\ notifyCall' = [notifyCall EXCEPT ![n] = IdleNotify]
    /\ UNCHANGED notNotify

(***************************************************************************)
(* LiveListener in front of the push bridge, several rooms                 *)
(*                                                                         *)
(* startListening initialises the rooms one after the other; for each it   *)
(* registers its closures with DanmuListenerService.on and awaits          *)
(* connectRoom.  The bridge keeps one handler per event name.  A room that *)
(* goes live sends a LIVE message on its socket if the socket is healthy.  *)
(* Every fetchLiveStatus answers with the upstream state.  handleLiveStart *)
(* is one step here; its awaits are studied in SpecLive.  A pass of        *)
(* checkAllLiveStatus is not begun while another is in progress, and       *)
(* startListening is called when no pass or handler is in progress.        *)
(***************************************************************************)
NoRoom == [present |-> FALSE, isLive |-> FALSE, useDanmaku |-> FALSE]
PollIdle == [pc |-> "idle", i |-> 0, kind |-> "none", initial |-> FALSE, rooms |-> {}]

MonIdle ==
    /\ monitor = [isRunning |-> FALSE, danmakuService |-> FALSE,
                  checkTimer |-> FALSE, pc |-> "idle", i |-> 0]
    /\ eventHandlers = 0
    /\ liveRooms = [r \in Rooms |-> NoRoom]
    /\ linked = [r \in Rooms |-> FALSE]
    /\ upLive = [r \in Rooms |-> FALSE]
    /\ inbox = [r \in Rooms |-> FALSE]
    /\ poll = PollIdle
    /\ pushCall = [r \in Rooms |-> "idle"]
    /\ startHandled = [r \in Rooms |-> FALSE]
    /\ turnedLive = [r \in Rooms |-> FALSE]

\* the room after i in the array `rooms` of a pass, or 0
NextRoom(rooms, i) ==
    IF \E r \in rooms : r > i
    THEN CHOOSE r \in rooms : r > i /\ \A q \in rooms : q > i => r <= q
    ELSE 0

\* checkAllLiveStatus reaches room i: syncRoomStatus for a room with a
\* healthy push connection, checkLiveStatus otherwise; both await the fetch
BeginRoom(rooms, i, initial, lr, lk) ==
    [pc |-> "fetch", i |-> i,
     kind |-> IF lr[i].useDanmaku /\ monitor.danmakuService /\ lk[i]
              THEN "sync" ELSE "check",
     initial |-> initial, rooms |-> rooms]

\* DanmuListenerService.on(event, handler) called by connectDanmaku for room
\* r: the handler of the event name is replaced
on(handlers, r) == r

\* initializeLiveRooms has dealt with room i: the next room, or the first
\* checkAllLiveStatus of startListening over the rooms lr
AfterRoom(i, lr, lk) ==
    IF i < MaxRooms
    THEN /\ monitor' = [monitor EXCEPT !.pc = "init", !.i = i + 1]
         /\ UNCHANGED poll
    ELSE LET rooms == {r \in Rooms : lr[r].present} IN
         IF rooms = {}
         THEN /\ monitor' = [monitor EXCEPT !.checkTimer = TRUE, !.pc = "idle", !.i = 0]
              /\ UNCHANGED poll
         ELSE /\ monitor' = [monitor EXCEPT !.pc = "first check", !.i = 0]
              /\ poll' = BeginRoom(rooms, NextRoom(rooms, 0), TRUE, lr, lk)

\* startListening up to its first await; `found` tells whether the bridge
\* service is there and has started
MonStartListening(found) ==
    /\ monitor.pc = "idle" /\ poll.pc = "idle"
    /\ \A r \in Rooms : pushCall[r] = "idle"
    /\ IF monitor.isRunning
       THEN UNCHANGED monitor
       ELSE monitor' = [monitor EXCEPT !.isRunning = TRUE, !.danmakuService = found,
                                       !.pc = "init", !.i = 1]
    /\ turnedLive' = IF monitor.isRunning THEN turnedLive ELSE [r \in Rooms |-> FALSE]
    /\ UNCHANGED <<eventHandlers, liveRooms, linked, upLive, inbox, poll, pushCall,
                   startHandled>>
    /\ UNCHANGED notMon

\* initializeLiveRooms resumed after getUserInfo: the room is created, and
\* connectDanmaku registers its closures and calls connectRoom
MonInitRoom ==
    LET i == monitor.i
        lr == [liveRooms EXCEPT ![i] = [NoRoom EXCEPT !.present = TRUE]]
    IN
    /\ monitor.pc = "init"
    /\ liveRooms' = lr
    /\ IF monitor.danmakuService
       THEN /\ eventHandlers' = on(eventHandlers, i)
            /\ monitor' = [monitor EXCEPT !.pc = "connect"]
            /\ UNCHANGED poll
       ELSE /\ AfterRoom(i, lr, linked)
            /\ UNCHANGED eventHandlers
    /\ UNCHANGED <<linked, upLive, inbox, pushCall, startHandled>>
    /\ UNCHANGED <<turnedLive, notMon>>

\* connectDanmaku resumed after `await this.danmakuService.connectRoom(...)`
MonConnectReturns(result) ==
    LET i == monitor.i
        lr == [liveRooms EXCEPT ![i].useDanmaku = result]
        lk == [linked EXCEPT ![i] = result]
    IN
    /\ monitor.pc = "connect"
    /\ liveRooms' = lr
    /\ linked' = lk
    /\ AfterRoom(i, lr, lk)
    /\ UNCHANGED <<eventHandlers, upLive, inbox, pushCall, startHandled>>
    /\ UNCHANGED <<turnedLive, notMon>>

\* the ctx.setInterval callback of startListening
MonPollTick ==
    LET rooms == {r \in Rooms : liveRooms[r].present} IN
    /\ monitor.checkTimer
    /\ poll.pc = "idle"
    /\ poll' = IF rooms = {} THEN PollIdle
               ELSE BeginRoom(rooms, NextRoom(rooms, 0), FALSE, liveRooms, linked)
    /\ UNCHANGED <<monitor, eventHandlers, liveRooms, linked, upLive, inbox, pushCall,
                   startHandled>>
    /\ UNCHANGED <<turnedLive, notMon>>

\* checkLiveStatus / syncRoomStatus resumed after the fetch; after the last
\* room the pass returns, and startListening, if it awaited this pass, arms
\* the recurring timer
MonPollAnswer ==
    LET i == poll.i
        wasLive == liveRooms[i].isLive
        isNowLive == upLive[i]
    IN
    /\ poll.pc = "fetch"
    /\ IF poll.kind = "check"
       THEN /\ liveRooms' = [liveRooms EXCEPT ![i].isLive = isNowLive]
            /\ startHandled' = IF ~wasLive /\ isNowLive
                               THEN [startHandled EXCEPT ![i] = TRUE]
                               ELSE startHandled
       ELSE UNCHANGED <<liveRooms, startHandled>>
    /\ IF NextRoom(poll.rooms, i) # 0
       THEN /\ poll' = [poll EXCEPT !.pc = "sleep"]
            /\ UNCHANGED monitor
       ELSE /\ poll' = PollIdle
            /\ monitor' = IF poll.initial
                          THEN [monitor EXCEPT !.checkTimer = TRUE, !.pc = "idle"]
                          ELSE monitor
    /\ UNCHANGED <<eventHandlers, linked, upLive, inbox, pushCall>>
    /\ UNCHANGED <<turnedLive, notMon>>

\* checkAllLiveStatus resumed after its sleep between two rooms
MonPollNext ==
    /\ poll.pc = "sleep"
    /\ poll' = BeginRoom(poll.rooms, NextRoom(poll.rooms, poll.i), poll.initial,
                         liveRooms, linked)
    /\ UNCHANGED <<monitor, eventHandlers, liveRooms, linked, upLive, inbox, pushCall,
                   startHandled>>
    /\ UNCHANGED <<turnedLive, notMon>>

\* upstream: room r, monitored since startListening has returned, goes live
\* and stays live
MonGoLive(r) ==
    /\ monitor.isRunning /\ monitor.pc = "idle"
    /\ liveRooms[r].present
    /\ ~upLive[r]
    /\ upLive' = [upLive EXCEPT ![r] = TRUE]
    /\ inbox' = [inbox EXCEPT ![r] = linked[r]]
    /\ turnedLive' = [turnedLive EXCEPT ![r] = TRUE]
    /\ UNCHANGED <<monitor, eventHandlers, liveRooms, linked, poll, pushCall,
                   startHandled>>
    /\ UNCHANGED notMon

\* the socket of room r delivers LIVE: onLiveStart calls
\* eventHandlers.liveStart(roomId), the closure compares roomId with its own
\* room and calls handleDanmakuLiveStart, which runs up to its await
MonDeliverLiveStart(r) ==
    /\ inbox[r]
    /\ inbox' = [inbox EXCEPT ![r] = FALSE]
    /\ pushCall' = IF eventHandlers = r /\ ~liveRooms[r].isLive
                   THEN [pushCall EXCEPT ![r] = "fetch"]
                   ELSE pushCall
    /\ UNCHANGED <<monitor, eventHandlers, liveRooms, linked, upLive, poll, startHandled>>
    /\ UNCHANGED <<turnedLive, notMon>>

\* handleDanmakuLiveStart resumed after the fetch
MonPushAnswer(r) ==
    /\ pushCall[r] = "fetch"
    /\ pushCall' = [pushCall EXCEPT ![r] = "idle"]
    /\ IF upLive[r]
       THEN /\ startHandled' = [startHandled EXCEPT ![r] = TRUE]
            /\ liveRooms' = [liveRooms EXCEPT ![r].isLive = TRUE]
       ELSE UNCHANGED <<startHandled, liveRooms>>
    /\ UNCHANGED <<monitor, eventHandlers, linked, upLive, inbox, poll>>
    /\ UNCHANGED <<turnedLive, notMon>>

\* the connection of room r stops being healthy
MonLinkStale(r) ==
    /\ linked[r]
    /\ linked' = [linked EXCEPT ![r] = FALSE]
    /\ UNCHANGED <<monitor, eventHandlers, liveRooms, upLive, inbox, poll, pushCall,
                   startHandled>>
    /\ UNCHANGED <<turnedLive, notMon>>

\* stopListening: the bridge is stopped, the recurring timer is cleared and
\* liveRooms is emptied
MonStopListening ==
    /\ IF ~monitor.isRunning
       THEN UNCHANGED <<monitor, linked, inbox, liveRooms>>
       ELSE /\ monitor' = [monitor EXCEPT !.isRunning = FALSE, !.checkTimer = FALSE]
            /\ linked' = IF monitor.danmakuService
                         THEN [r \in Rooms |-> FALSE] ELSE linked
            /\ inbox' = IF monitor.danmakuService
                        THEN [r \in Rooms |-> FALSE] ELSE inbox
            /\ liveRooms' = [r \in Rooms |-> [liveRooms[r] EXCEPT !.present = FALSE]]
    /\ UNCHANGED <<eventHandlers, upLive, poll, pushCall, startHandled>>
    /\ UNCHANGED <<turnedLive, notMon>>

\* the initial values of the services added to the network layer
AuxIdle == WbiIdle /\ ApiIdle /\ NotifyIdle /\ MonIdle

HttpInit == FilterIdle /\ RiskIdle /\ DetIdle /\ LiveIdle /\ HttpIdle /\ DanmuIdle /\ AuxIdle
HttpNext ==
    \/ \E c \in HttpCallers, r1, r2 \in Random, rotate \in BOOLEAN :
          HttpCall(c, FALSE, 0, r1, r2, rotate)
    \/ \E c \in HttpCallers, maxRetries \in 1..MaxConcurrentRetries,
          r1, r2 \in Random, rotate \in BOOLEAN :
          HttpCall(c, TRUE, maxRetries, r1, r2, rotate)
    \/ \E c \in HttpCallers, rotate \in BOOLEAN : HttpIssue(c, rotate)
    \/ \E c \in HttpCallers : HttpSucceeds(c)
    \/ \E c \in HttpCallers, error \in UpErrors \cup {UpInactive}, r1, r2 \in Random :
          HttpFails(c, error, r1, r2)
    \/ \E c \in HttpCallers, r1, r2 \in Random, rotate \in BOOLEAN :
          HttpRetry(c, r1, r2, rotate)
    \/ \E c \in HttpCallers : HttpReturn(c)
    \/ HttpDispose
    \/ HttpTick
SpecHttp == HttpInit /\ [][HttpNext]_vars

\* one caller of getWithRetry / postWithRetry, one call at a time
RetryInit == HttpInit
RetryNext ==
    \/ \E maxRetries \in RetryChoices, r1, r2 \in Random, rotate \in BOOLEAN :
          /\ FreeCallers = HttpCallers
          /\ HttpCall(FreeCaller, TRUE, maxRetries, r1, r2, rotate)
    \/ \E c \in HttpCallers, rotate \in BOOLEAN : HttpIssue(c, rotate)
    \/ \E c \in HttpCallers : HttpSucceeds(c)
    \/ \E c \in HttpCallers, error \in UpErrors \cup {UpInactive}, r1, r2 \in Random :
          HttpFails(c, error, r1, r2)
    \/ \E c \in HttpCallers, r1, r2 \in Random, rotate \in BOOLEAN :
          HttpRetry(c, r1, r2, rotate)
    \/ \E c \in HttpCallers : HttpReturn(c)
    \/ HttpDispose
    \/ HttpTick
SpecRetry == RetryInit /\ [][RetryNext]_vars

\* the same with the scheduling of the runtime: a timer that is due fires,
\* a continuation that is ready runs, and ctx.http settles every request
\* (at the latest when its timeout expires)
RetryFairness ==
    /\ WF_vars(HttpTick)
    /\ \A c \in HttpCallers :
          /\ WF_vars(\E rotate \in BOOLEAN : HttpIssue(c, rotate))
          /\ WF_vars(HttpSucceeds(c)
                     \/ \E error \in UpErrors \cup {UpInactive}, r1, r2 \in Random :
                           HttpFails(c, error, r1, r2))
          /\ WF_vars(\E r1, r2 \in Random, rotate \in BOOLEAN : HttpRetry(c, r1, r2, rotate))
SpecRetryFair == SpecRetry /\ RetryFairness

\* the push bridge on its own
DanmuInit == FilterIdle /\ RiskIdle /\ DetIdle /\ LiveIdle /\ HttpIdle /\ DanmuIdle /\ AuxIdle
DanmuNext ==
    \/ DanmuStart
    \/ DanmuStop
    \/ \E r \in Rooms : ConnectRoom(r)
    \/ \E r \in Rooms, a \in ApiAnswers : ConnectRoomReturns(r, a)
    \/ \E r \in Rooms : DisconnectRoom(r)
    \/ \E r \in Rooms : SocketOpen(r)
    \/ \E r \in Rooms : SocketClose(r)
    \/ \E r \in Rooms : SocketError(r)
    \/ \E r \in Rooms : ErrorTimerFires(r)
    \/ \E r \in Rooms : HeartbeatTimeout(r)
    \/ \E r \in Rooms : ReconnectTimerFires(r)
    \/ \E r \in Rooms : Redial(r)
SpecDanmu == DanmuInit /\ [][DanmuNext]_vars

\* the push bridge left at its default capacity, with an owner that asks
\* again for a room it has asked for before
ReconnectNext ==
    \/ DanmuStart
    \/ DanmuStop
    \/ \E r \in Reasked : ConnectRoomWith(DEFAULT_CONFIG.MAX_CONNECTIONS, MaxReasks, r)
    \/ \E r \in Reasked, a \in ApiAnswers : ConnectRoomReturns(r, a)
    \/ \E r \in Reasked : DisconnectRoom(r)
    \/ \E r \in Reasked : SocketOpen(r)
    \/ \E r \in Reasked : SocketClose(r)
    \/ \E r \in Reasked : SocketError(r)
    \/ \E r \in Reasked : ErrorTimerFires(r)
    \/ \E r \in Reasked : HeartbeatTimeout(r)
    \/ \E r \in Reasked : ReconnectTimerFires(r)
    \/ \E r \in Reasked : RedialWith(DEFAULT_CONFIG.MAX_CONNECTIONS, r)
SpecReconnect == DanmuInit /\ [][ReconnectNext]_vars

\* the key cache on its own
WbiInit == HttpInit
WbiNext ==
    \/ \E c \in WbiCallers : WbiGet(c)
    \/ \E c \in WbiCallers, k \in KeyPairs : WbiFetchSucceeds(c, k)
    \/ \E c \in WbiCallers : WbiFetchFails(c)
    \/ \E c \in WbiCallers : WbiReturn(c)
    \/ WbiClearCache
    \/ WbiTick
SpecWbi == WbiInit /\ [][WbiNext]_vars

\* the API service on its own, with the teardown of the plugin scope
ApiInit == HttpInit
ApiNext ==
    \/ \E c \in ApiCallers, op \in ApiOps : ApiCall(c, op)
    \/ \E c \in ApiCallers, signed \in BOOLEAN : ApiSigned(c, signed)
    \/ \E c \in ApiCallers, a \in ApiAnswersHttp : ApiAnswered(c, a)
    \/ \E c \in ApiCallers : ApiReturn(c)
    \/ HttpDispose
SpecApi == ApiInit /\ [][ApiNext]_vars

\* the notification manager on its own
NotifyInit == HttpInit
NotifyNext ==
    \/ \E n \in Notifiers, target, bot \in BOOLEAN : SendNotification(n, target, bot)
    \/ \E n \in Notifiers, outcome \in SendOutcomes : NotifySendEnds(n, outcome)
    \/ \E n \in Notifiers : NotifyTimerFires(n)
    \/ \E n \in Notifiers, outcome \in SendOutcomes : NotifyResendEnds(n, outcome)
    \/ \E n \in Notifiers : NotifyReturn(n)
SpecNotify == NotifyInit /\ [][NotifyNext]_vars

\* the monitor with several rooms in front of the push bridge
MonInit == HttpInit
MonNext ==
    \/ \E found \in BOOLEAN : MonStartListening(found)
    \/ MonInitRoom
    \/ \E result \in BOOLEAN : MonConnectReturns(result)
    \/ MonPollTick
    \/ MonPollAnswer
    \/ MonPollNext
    \/ \E r \in Rooms : MonGoLive(r)
    \/ \E r \in Rooms : MonDeliverLiveStart(r)
    \/ \E r \in Rooms : MonPushAnswer(r)
    \/ \E r \in Rooms : MonLinkStale(r)
    \/ MonStopListening
SpecMon == MonInit /\ [][MonNext]_vars

\* timers fire, awaited calls return and messages on a socket arrive
MonFairness ==
    /\ WF_vars(MonInitRoom)
    /\ WF_vars(\E result \in BOOLEAN : MonConnectReturns(result))
    /\ WF_vars(MonPollTick)
    /\ WF_vars(MonPollAnswer)
    /\ WF_vars(MonPollNext)
    /\ \A r \in Rooms : WF_vars(MonDeliverLiveStart(r))
    /\ \A r \in Rooms : WF_vars(MonPushAnswer(r))
SpecMonFair == SpecMon /\ MonFairness


(***************************************************************************)
(* Specifications                                                          *)
(***************************************************************************)
FilterInit ==
    /\ fDynamics \in Feeds
    /\ fLastId \in {NoId} \cup FeedIds
    /\ fNew = <<>>
    /\ fCalled = FALSE
    /\ RiskIdle /\ DetIdle /\ LiveIdle /\ HttpIdle /\ DanmuIdle /\ AuxIdle
FilterNext == FilterCall \/ FilterNextInput
SpecFilter == FilterInit /\ [][FilterNext]_vars

RiskInit == FilterIdle /\ RiskIdle /\ DetIdle /\ LiveIdle /\ HttpIdle /\ DanmuIdle /\ AuxIdle
RiskNext ==
    \/ \E error \in Errors : RiskRecordFailure(error)
    \/ RiskRecordSuccess
    \/ RiskIsCurrentlyBlocked
    \/ RiskShouldLogWarning
    \/ RiskReset
    \/ RiskTick
SpecRisk == RiskInit /\ [][RiskNext]_vars

DetInit == FilterIdle /\ RiskIdle /\ DetIdle /\ LiveIdle /\ HttpIdle /\ DanmuIdle /\ AuxIdle
DetNext ==
    \/ StartDetection
    \/ StopDetection
    \/ InitialCheckFires
    \/ IntervalTick
    \/ \E p \in Passes, error \in Errors : FetchFails(p, error)
    \/ \E p \in Passes : FetchSucceeds(p)
    \/ \E p \in Passes, success \in BOOLEAN : ImageReturns(p, success)
    \/ \E p \in Passes : SendReturns(p)
    \/ \E p \in Passes : SleepDone(p)
    \/ \E blocked \in BOOLEAN : Publish(blocked)
    \/ DetTick
SpecDetector == DetInit /\ [][DetNext]_vars

\* the Detector in front of an upstream that publishes nothing: its passes
\* fetch, record the outcome in the risk tracker and sleep
PauseNext ==
    \/ StartDetection
    \/ StopDetection
    \/ InitialCheckFires
    \/ IntervalTick
    \/ \E p \in Passes, error \in Errors : FetchFails(p, error)
    \/ \E p \in Passes : FetchSucceeds(p)
    \/ \E p \in Passes : SleepDone(p)
    \/ DetTick
SpecPause == DetInit /\ [][PauseNext]_vars
\* the interval of ctx.setInterval keeps firing while it is armed, time
\* passes, and every awaited call of a pass returns
PauseFairness ==
    /\ WF_vars(DetTick)
    /\ WF_vars(IntervalTick)
    /\ \A p \in Passes :
          /\ WF_vars(FetchSucceeds(p) \/ \E error \in Errors : FetchFails(p, error))
          /\ WF_vars(SleepDone(p))
SpecPauseFair == SpecPause /\ PauseFairness

LiveInit == FilterIdle /\ RiskIdle /\ DetIdle /\ LiveIdle /\ HttpIdle /\ DanmuIdle /\ AuxIdle
LiveNext ==
    \/ StartListening
    \/ \E useDanmaku \in BOOLEAN : InitializeLiveRooms(useDanmaku)
    \/ PollTick
    \/ \E h \in Handlers : LiveFetchSucceeds(h)
    \/ \E h \in Handlers, error \in Errors : LiveFetchFails(h, error)
    \/ \E h \in Handlers, success \in BOOLEAN : LiveImageReturns(h, success)
    \/ \E h \in Handlers : LiveSendReturns(h)
    \/ PushLiveStart
    \/ PushLiveEnd
    \/ PushSilence
    \/ \E title \in Titles : GoLive(title)
    \/ \E title \in Titles : ChangeTitle(title)
    \/ GoOffline
    \/ LiveTick
SpecLive == LiveInit /\ [][LiveNext]_vars


(***************************************************************************)
(* Claims                                                                  *)
(***************************************************************************)

\* C2: when the last-seen id occurs at index i of the fetched newest-first
\* feed, filterNewDynamics reports exactly feed[0..i-1]; the last-seen item
\* and every older item are not reported.
C2_NewIsPrefixBeforeLastSeen ==
    (fCalled /\ fLastId # NoId) =>
        \A i \in 1..Len(fDynamics) :
            fDynamics[i] = fLastId =>
                /\ fNew = SubSeq(fDynamics, 1, i - 1)
                /\ \A j \in i..Len(fDynamics) : fDynamics[j] \notin Range(fNew)

C2_Witness ==
    /\ fCalled
    /\ Len(fDynamics) = 3
    /\ fDynamics[3] = fLastId
    /\ fNew = <<fDynamics[1], fDynamics[2]>>

\* C3 (as stated): with no last-seen id, or one that does not occur in the
\* fetched feed, filterNewDynamics reports exactly one item, feed[0].
C3_Original ==
    (fCalled /\ (fLastId = NoId \/ fLastId \notin Range(fDynamics))) =>
        /\ Len(fNew) = 1
        /\ fNew[1] = fDynamics[1]

\* C3 (amended): with no last-seen id, or one that does not occur in the
\* fetched feed, filterNewDynamics reports the newest item feed[0] alone
\* when the feed has items, and nothing when the feed is empty.
C3_NewestAloneOrNothing ==
    (fCalled /\ (fLastId = NoId \/ fLastId \notin Range(fDynamics))) =>
        IF fDynamics = <<>> THEN fNew = <<>> ELSE fNew = <<fDynamics[1]>>

C3_Witness ==
    /\ fCalled
    /\ Len(fDynamics) = 3
    /\ fLastId # NoId
    /\ fLastId \notin Range(fDynamics)
    /\ fNew = <<fDynamics[1]>>

\* C10: from an unblocked tracker, isCurrentlyBlocked() is false after fewer
\* than 3 and true after exactly 3 consecutive qualifying recordFailure
\* calls; recordSuccess sets the counter to 0, so that 3 qualifying
\* failures after it are needed to block.
C10_BlocksAtThirdFreshFailure ==
    [][ /\ (~status.isBlocked /\ fresh' = fresh + 1) =>
              /\ fresh' <= 3
              /\ isCurrentlyBlocked(status', now').ret <=> (fresh' = 3)
              /\ status'.consecutiveFailures = fresh'
        /\ (fresh' = 0) => status'.consecutiveFailures = 0
      ]_vars

C10_Witness ==
    /\ interleaved
    /\ fresh = 3
    /\ status.isBlocked
    /\ isCurrentlyBlocked(status, now).ret

\* the step in which pass p calls sendNotification for a post and a target
SendsNow(p) == pass'[p].pc = "send" /\ pass'[p] # pass[p]

\* the step in which pass p leaves checkUserDynamics for the sleep of
\* checkForUpdates
FinishesNow(p) == pass[p].pc \in {"fetch", "image", "send"} /\ pass'[p].pc = "sleep"

\* C1: across the passes of one run (initial check, interval ticks, passes
\* after stopDetection/startDetection) no post is notified to the same
\* target more than once: no pass calls sendNotification for a post and a
\* target that have already had one.
C1_Original ==
    [][\A p \in Passes :
          SendsNow(p) =>
              pass'[p].t \notin notified[pass'[p].newDynamics[pass'[p].k]]
      ]_vars

\* C4: within one pass the notifications for the new posts are emitted
\* oldest post first, newest last.
C4_Original ==
    \A p \in Passes :
        \A i, j \in 1..Len(emitted[p]) : i < j => emitted[p][i] < emitted[p][j]

\* C5: when a pass ends after a successful fetch, lastDynamicIds holds the
\* id of the newest fetched item, whatever was reported new or filtered;
\* when it ends after a failed fetch, lastDynamicIds is unchanged; nothing
\* else changes lastDynamicIds.
C5_LastSeenIsNewestFetched ==
    [][ /\ \A p \in Passes :
              FinishesNow(p) =>
                  LET dynamics == IF pass[p].pc = "fetch" THEN FeedOf(pass[p].sub)
                                  ELSE pass[p].dynamics
                  IN IF pass'[p].ok
                     THEN dynamics # <<>> => lastDynamicIds' = dynamics[1]
                     ELSE lastDynamicIds' = lastDynamicIds
        /\ lastDynamicIds' # lastDynamicIds =>
              \E p \in Passes : FinishesNow(p) /\ pass'[p].ok
      ]_vars

C5_Witness ==
    \E p \in Passes :
        /\ pass[p].pc = "sleep"
        /\ pass[p].ok
        /\ published >= 2
        /\ lastDynamicIds = published
        /\ published \in postBlocked
        /\ notified[published] = {}

\* C6: every post a pass classified as new and the filter let through has
\* had a sendNotification call for each dynamic-enabled target by the time
\* the pass advances lastDynamicIds, whatever image rendering and the sends
\* returned.
C6_Original ==
    [][\A p \in Passes :
          (FinishesNow(p) /\ pass'[p].ok /\ pass[p].pc # "fetch") =>
              Lost(pass[p].newDynamics) = {}
      ]_vars

\* the step in which handler h calls sendNotification for a session and a
\* target
LiveSendsNow(h) == handler'[h].pc = "send" /\ handler'[h] # handler[h]

\* C7: for each upstream live session the start transition is handled
\* exactly once, under any interleaving of poll checks and push liveStart
\* events: no start notification goes to a target that has already had one
\* for the session.
C7_Original ==
    [][\A h \in Handlers :
          (LiveSendsNow(h) /\ handler'[h].op = "start") =>
              <<handler'[h].session, handler'[h].t>> \notin liveLog.startSent
      ]_vars

\* C8: after a normal start, the true->false transition emits exactly one
\* end notification per live-enabled target; a further end signal for the
\* same session emits nothing: no end notification goes to a target that has
\* already had one for the session.
C8_Original ==
    [][\A h \in Handlers :
          (/\ LiveSendsNow(h)
           /\ handler'[h].op = "end"
           /\ <<handler'[h].session, handler'[h].t>> \in liveLog.startSent) =>
              <<handler'[h].session, handler'[h].t>> \notin liveLog.endSent
      ]_vars

\* C9: a handleLiveStart whose title the filter rejects marks the room
\* filtered, sends no notification, arms no repeat timer and returns; a
\* handleLiveEnd that finds the room filtered sends nothing, cancels
\* nothing, clears the filtered flag and returns.
C9_FilteredStartAndEndAreSilent ==
    [][ /\ (liveGhost'.op = "handleLiveStart" /\ liveGhost'.rejected) =>
              /\ room'.isBlocked
              /\ liveLog' = liveLog
              /\ liveTimers' = liveTimers
              /\ room'.pushTimer = room.pushTimer
              /\ handler'[liveGhost'.h].pc = "idle"
        /\ (liveGhost'.op = "handleLiveEnd" /\ liveGhost'.wasBlocked) =>
              /\ ~room'.isBlocked
              /\ liveLog' = liveLog
              /\ liveTimers' = liveTimers
              /\ room'.pushTimer = room.pushTimer
              /\ handler'[liveGhost'.h].pc = "idle"
      ]_vars

C9_Witness ==
    /\ liveGhost.op = "handleLiveEnd"
    /\ liveGhost.wasBlocked
    /\ ~room.isBlocked
    /\ ~upstream.live
    /\ upstream.session = 1
    /\ liveLog.startSent = {}
    /\ liveLog.endSent = {}
    /\ liveTimers = 0

\* a recordFailure call that runs activateBlock
ActivatesNow ==
    /\ lastOp' = "recordFailure"
    /\ status'.consecutiveFailures = status.consecutiveFailures + 1
    /\ status'.consecutiveFailures >= 3

\* C11: blockDuration never exceeds 60 minutes, and every activation sets it
\* to min(5 min * 2^min(failures - 2, 4), 60 min).
C11_DurationFormulaAndCap ==
    [][ /\ status'.blockDuration <= 60 * 60 * 1000
        /\ ActivatesNow =>
              /\ status'.isBlocked
              /\ status'.blockStartTime = now
              /\ status'.blockDuration =
                    Min(5 * 60 * 1000 * Pow2(Min(status'.consecutiveFailures - 2, 4)),
                        60 * 60 * 1000)
      ]_vars

C11_Witness ==
    /\ status.isBlocked
    /\ status.consecutiveFailures = 6
    /\ status.blockDuration = 60 * 60 * 1000

\* C12: while a block stays active (no expiry, no reset), every
\* re-activation by a further qualifying failure sets a blockDuration at
\* least as long as the previous one, whatever recordSuccess calls come in
\* between.
C12_Original ==
    [][ (/\ ActivatesNow
         /\ status.isBlocked
         /\ now - status.blockStartTime < status.blockDuration) =>
            status'.blockDuration >= status.blockDuration
      ]_vars

\* C13 (as stated): recordSuccess sets consecutiveFailures to 0 and leaves
\* isBlocked, blockStartTime and blockDuration unchanged; an active block
\* ends only in an isCurrentlyBlocked() call made when its duration has
\* elapsed.
C13_Original ==
    [][ /\ lastOp' = "recordSuccess" =>
              /\ status'.consecutiveFailures = 0
              /\ status'.isBlocked = status.isBlocked
              /\ status'.blockStartTime = status.blockStartTime
              /\ status'.blockDuration = status.blockDuration
        /\ (status.isBlocked /\ ~status'.isBlocked) =>
              /\ lastOp' = "isCurrentlyBlocked"
              /\ now - status.blockStartTime >= status.blockDuration
      ]_vars

\* C13 (amended): recordSuccess sets consecutiveFailures to 0 and leaves
\* isBlocked, blockStartTime and blockDuration unchanged; an active block
\* ends only in an isCurrentlyBlocked() call made when its duration has
\* elapsed, or in a reset() call.
C13_BlockEndsByExpiryOrReset ==
    [][ /\ lastOp' = "recordSuccess" =>
              /\ status'.consecutiveFailures = 0
              /\ status'.isBlocked = status.isBlocked
              /\ status'.blockStartTime = status.blockStartTime
              /\ status'.blockDuration = status.blockDuration
        /\ (status.isBlocked /\ ~status'.isBlocked) =>
              \/ /\ lastOp' = "isCurrentlyBlocked"
                 /\ now - status.blockStartTime >= status.blockDuration
              \/ lastOp' = "reset"
      ]_vars

C13_Witness ==
    /\ lastOp = "recordSuccess"
    /\ status.isBlocked
    /\ status.consecutiveFailures = 0
    /\ status.blockDuration > 0
    /\ now - status.blockStartTime < status.blockDuration

\* caller c's get / post hands its request to ctx.http in this step
IssuesNow(c) == call[c].pc # "request" /\ call'[c].pc = "request"

\* C14: any two consecutive upstream requests of the service are issued at
\* least MIN_REQUEST_INTERVAL apart, however the concurrent callers of
\* get / post interleave.
C14_Original ==
    [][ \A c \in HttpCallers :
           (IssuesNow(c) /\ lastIssue # 0)
               => hnow - lastIssue >= HTTP_CONFIG.MIN_REQUEST_INTERVAL ]_vars

\* smartRetry's catch block sends caller c into a backoff sleep in this step,
\* after an attempt that failed with a -352 error
RiskBackoffNow(c) ==
    /\ call[c].pc = "request"
    /\ call'[c].pc = "backoff"
    /\ Includes(call'[c].thrown.msg, "-352")

\* C15: in getWithRetry / postWithRetry, after a -352 failure the wait before
\* retry 1 lies in [10 s, 30 s), the wait before every retry numbered 2 or
\* higher lies in [30 s, 90 s), and the User-Agent index is rotated (advanced
\* by one, cyclically) before each such retry.
C15_RiskRetryDelayAndRotation ==
    [][ \A c \in HttpCallers :
           RiskBackoffNow(c) =>
              /\ call'[c].wake = hnow + call'[c].delay
              /\ call'[c].attempt = 0 =>
                     (10000 <= call'[c].delay /\ call'[c].delay < 30000)
              /\ call'[c].attempt >= 1 =>
                     (30000 <= call'[c].delay /\ call'[c].delay < 90000)
              /\ currentUserAgentIndex' = (currentUserAgentIndex + 1) % NumUserAgents ]_vars

\* a call with 3 retries waits for its third retry, after three -352 failures,
\* with a delay close to the upper end of the range
C15_Witness ==
    \E c \in HttpCallers :
       /\ call[c].pc = "backoff"
       /\ call[c].maxRetries = 3
       /\ call[c].attempt = 2
       /\ Includes(call[c].thrown.msg, "-352")
       /\ call[c].delay > 60000

\* C16: getWithRetry / postWithRetry always terminate; they invoke the
\* underlying request at most maxRetries + 1 times, return the first
\* successful response without a further attempt, and when every attempt
\* fails they reject with the error of the last attempt.
C16_TerminatesWithinMaxRetries ==
    /\ [](\A c \in HttpCallers :
            /\ call[c].invoked <= call[c].maxRetries + 1
            /\ call[c].attempt <= call[c].maxRetries
            /\ (call[c].pc = "done" /\ call[c].result = "rejected")
                   => (call[c].thrown # NoError /\ call[c].lastError = call[c].thrown))
    /\ [][ \A c \in HttpCallers :
              /\ (call[c].pc = "request" /\ call'[c].pc = "done" /\ call'[c].result = "ok")
                     => call'[c].invoked = call[c].invoked
              /\ (call[c].pc = "request" /\ call'[c].pc # "request")
                     => \/ call'[c].pc = "done" /\ call'[c].result = "ok"
                        \/ call'[c].thrown # NoError
              /\ (call[c].pc = "done" /\ call'[c].pc = "done") => call'[c] = call[c] ]_vars
    /\ \A c \in HttpCallers :
          (call[c].pc \notin {"idle", "done"}) ~> (call[c].pc = "done")

\* a call with 3 retries has invoked the request 4 times and rejected with
\* the network error of the fourth attempt
C16_Witness ==
    \E c \in HttpCallers :
       /\ call[c].pc = "done"
       /\ call[c].result = "rejected"
       /\ call[c].maxRetries = 3
       /\ call[c].invoked = 4
       /\ call[c].lastError = UpNetwork

\* the error tells that the scope has been torn down
ScopeError(error) == Includes(error.msg, "ctx_stopped") \/ error = ErrRestarting

\* C17: once the execution scope is inactive, get / post issue no upstream
\* request (not for a call that was waiting in the rate-limit delay or in a
\* retry backoff either), smartRetry makes no further attempt, and a call
\* that is made or resumed then fails with a scope-torn-down error.
C17_Original ==
    [][ \A c \in HttpCallers :
           ~scopeActive =>
              /\ ~IssuesNow(c)
              /\ call'[c].invoked <= call[c].invoked
              /\ (call[c].pc \in {"idle", "rateSleep", "backoff"}
                     /\ call'[c].pc # call[c].pc)
                    => /\ call'[c].pc = "done"
                       /\ call'[c].result = "rejected"
                       /\ ScopeError(call'[c].lastError) ]_vars


(***************************************************************************)
(* C18: the number of connection records the push bridge holds at any one  *)
(* time never exceeds maxConnections, however connectRoom calls (initial   *)
(* connects and timer-driven reconnects) and disconnectRoom calls          *)
(* interleave.                                                             *)
(***************************************************************************)
C18_Original ==
    Size(connections) <= maxConnections

(***************************************************************************)
(* C19: once handleConnectionError has made a room's reconnect attempts    *)
(* exceed 3, the bridge removes the room's connection and emits an `error` *)
(* event for the room, and it never redials the room automatically again:  *)
(* reconnect timers scheduled by earlier attempts do not redial it either. *)
(***************************************************************************)
ExceedsNow(r) ==
    /\ connections[r].present
    /\ connections[r].reconnectCount = 3
    /\ ~terminal[r]
    /\ terminal'[r]

RedialsNow(r) == redials'[r] = redials[r] + 1

C19_Original ==
    [][\A r \in Rooms :
          /\ ExceedsNow(r) => /\ ~connections'[r].present
                              /\ <<r, "error">> \in danmuEvents'
          /\ terminal[r] => ~RedialsNow(r)]_vars

(***************************************************************************)
(* C20: for a room, the number of automatic redials made without its       *)
(* connection having opened in between never exceeds 3.                    *)
(***************************************************************************)
C20_Original ==
    \A r \in Rooms : redials[r] <= 3

(***************************************************************************)
(* C21: a connectRoom call made while the caller is not authenticated (no  *)
(* session cookie, or getMyselfInfo gives no identity) returns false,      *)
(* fetches no push credentials and opens no connection for the room.       *)
(***************************************************************************)
C21_UnauthenticatedConnectRefused ==
    [][\A r \in Rooms :
          <<r, "not logged in">> \in danmuEvents' =>
              /\ <<r, "returns false">> \in danmuEvents'
              /\ <<r, "returns true">> \notin danmuEvents'
              /\ <<r, "getDanmuInfo">> \notin danmuEvents'
              /\ <<r, "startListen">> \notin danmuEvents'
              /\ connections'[r] = connections[r]]_vars

C21_Witness ==
    \E r \in Rooms :
        /\ <<r, "not logged in">> \in danmuEvents
        /\ <<r, "returns false">> \in danmuEvents
        /\ asked[r] = 1

(***************************************************************************)
(* C22: once a key pair has been fetched successfully at any earlier time, *)
(* getWbiKeys / getWbi never fail: when the cache is expired and the       *)
(* refresh fails the stale pair is returned; signing fails only if no key  *)
(* pair has ever been populated.                                           *)
(***************************************************************************)
WbiEndsNow(c) == wbiCall[c].pc # "done" /\ wbiCall'[c].pc = "done"
WbiFailsNow(c) == WbiEndsNow(c) /\ wbiCall'[c].result.kind = "throws"
WbiRefreshFailsNow(c) ==
    wbiCall[c].pc = "fetch" /\ wbiCall'[c].pc = "done" /\ UNCHANGED wbiKeys

C22_Original ==
    [][\A c \in WbiCallers : WbiFailsNow(c) => ~wbiEver]_vars

(***************************************************************************)
(* C22 as the code has it: once a key pair has been fetched successfully   *)
(* and the cache has not been cleared since (clearCache, reached also      *)
(* through resetServiceState), getWbiKeys / getWbi never fail: when the    *)
(* cache is expired and the refresh fails the stale pair is returned;      *)
(* signing fails only if no key pair is populated.                         *)
(***************************************************************************)
C22_StaleKeysUnlessCleared ==
    [][\A c \in WbiCallers :
          /\ WbiFailsNow(c) => ~wbiPopulated
          /\ (WbiRefreshFailsNow(c) /\ wbiPopulated) =>
                 wbiCall'[c].result = [kind |-> "keys", keys |-> wbiKeys]]_vars

C22_Witness ==
    \E c \in WbiCallers :
        /\ wbiCall[c].pc = "done"
        /\ wbiCall[c].result = [kind |-> "keys", keys |-> wbiKeys]
        /\ wbiPopulated
        /\ wbiNow >= wbiKeysExpiry
        /\ \A d \in WbiCallers : wbiCall[d].pc # "fetch"
        /\ wbiNow = wbiKeysExpiry + WbiTickMs

(***************************************************************************)
(* C23: after a successful key fetch, every getWbiKeys / getWbi call made  *)
(* before the cache expiry (CACHE_DURATION, 5 minutes) issues no key fetch *)
(* and returns the cached pair; a fetch is issued only when the cache is   *)
(* empty or expired.                                                       *)
(***************************************************************************)
WbiCallsNow(c) == wbiCall[c].pc = "idle" /\ wbiCall'[c].pc # "idle"

C23_CachedUntilExpiry ==
    /\ [][\A c \in WbiCallers :
            /\ (WbiCallsNow(c) /\ wbiKeys # NoKeys /\ wbiNow < wbiKeysExpiry) =>
                  /\ wbiCall'[c].pc = "done"
                  /\ wbiCall'[c].result = [kind |-> "keys", keys |-> wbiKeys]
            /\ (WbiCallsNow(c) /\ wbiCall'[c].pc = "fetch") =>
                  (wbiKeys = NoKeys \/ wbiNow >= wbiKeysExpiry)]_vars
    /\ [](wbiKeys # NoKeys => wbiKeysExpiry <= wbiNow + WBI_CONFIG.CACHE_DURATION)
    /\ [][wbiKeysExpiry' # wbiKeysExpiry =>
            wbiKeysExpiry' \in {0, wbiNow + WBI_CONFIG.CACHE_DURATION}]_vars

C23_Witness ==
    \E c \in WbiCallers :
        /\ wbiCall[c].pc = "done"
        /\ wbiCall[c].result = [kind |-> "keys", keys |-> wbiKeys]
        /\ wbiNow = wbiKeysExpiry - WbiTickMs
        /\ \A d \in WbiCallers \ {c} : wbiCall[d].pc = "idle"

(***************************************************************************)
(* C24: every operation of BilibiliApiService (getUserInfo,                *)
(* getUserDynamics, getLiveRoomInfo, getRoomIdByUid, getLongRoomId,        *)
(* getDanmuInfo, getMyselfInfo, getLoginStatus) resolves to a success or   *)
(* failure envelope and never throws to its caller, whatever the upstream  *)
(* does: success code, error code, signing failure, network error, scope   *)
(* torn down.                                                              *)
(***************************************************************************)
C24_OperationsResolveToEnvelope ==
    \A c \in ApiCallers :
        /\ apiCall[c].pc = "done" =>
              /\ apiCall[c].result.kind = "envelope"
              /\ apiCall[c].result.success \in BOOLEAN
              /\ ~apiCall[c].result.success => apiCall[c].result.error # {}
        /\ apiCall[c].pc # "done" => apiCall[c].result = NoEnvelope

C24_Witness ==
    /\ ~scopeActive
    /\ \E c \in ApiCallers :
          /\ apiCall[c].op = "getUserDynamics"
          /\ apiCall[c].pc = "done"
          /\ apiCall[c].result = Failure(ErrScopeRetry.msg)
    /\ \E c \in ApiCallers :
          /\ apiCall[c].op = "getDanmuInfo"
          /\ apiCall[c].pc = "done"
          /\ apiCall[c].result = Failure({"-352"})

(***************************************************************************)
(* C25: for each sendNotification call the number of bot.sendMessage       *)
(* delivery attempts is bounded: delivery uses limited retry (at most the  *)
(* attempts of withRetry, 3 by default) and never reschedules itself       *)
(* without bound, whatever the pattern of send failures.                   *)
(***************************************************************************)
DeliveryLimit == 3

C25_Original ==
    \A n \in Notifiers : notifyCall[n].attempts <= DeliveryLimit

(***************************************************************************)
(* C27: at any time at most one checkForUpdates pass of the Detector and   *)
(* at most one checkAllLiveStatus pass of the Monitor is in progress: a    *)
(* timer tick (or the 5-second initial check) that fires while a pass is   *)
(* still running never yields a second, overlapping pass.                  *)
(***************************************************************************)
PassesInProgress == {p \in Passes : pass[p].pc # "idle"}
PollsInProgress ==
    {h \in Handlers : handler[h].pc # "idle" /\ handler[h].kind \in {"sync", "check"}}

C27_Original ==
    /\ Cardinality(PassesInProgress) <= 1
    /\ Cardinality(PollsInProgress) <= 1

(***************************************************************************)
(* C26: at the moment the feed fetch for any subject is issued, the posts  *)
(* risk tracker is not blocked: once the tracker reports blocked, no feed  *)
(* fetch is made for any subject until the block has elapsed.              *)
(***************************************************************************)
FetchIssuedNow(p) ==
    /\ pass'[p].pc = "fetch"
    /\ pass[p].pc # "fetch" \/ pass'[p].sub # pass[p].sub

C26_Original ==
    [][\A p \in Passes :
          FetchIssuedNow(p) => ~isCurrentlyBlocked(status', now').ret]_vars

\* a status check (checkLiveStatus or syncRoomStatus) gets its answer in
\* this step and finds the room, which it holds as live, still live under a
\* title other than the stored one
TitleDiffersNow ==
    /\ \E h \in Handlers :
          /\ handler[h].pc = "fetch" /\ handler[h].kind \in {"check", "sync"}
          /\ handler'[h] # handler[h]
    /\ room.isLive /\ upstream.live
    /\ room.title # upstream.title
    /\ room'.title = upstream.title

C28_Original ==
    \A r \in Rooms :
        (turnedLive[r] /\ monitor.isRunning) ~> (startHandled[r] \/ ~monitor.isRunning)

\* C30: after stopListening has completed, no recurring check timer and no
\* push connection is active, and none becomes active again before the next
\* start, for any interleaving of the stop with a startListening, a poll
\* pass or a push handler in progress.
C30_Original ==
    ~monitor.isRunning =>
        /\ ~monitor.checkTimer
        /\ \A r \in Rooms : ~linked[r]

(***************************************************************************)
(* C31: when the upstream answers an operation of the API service with the *)
(* abuse-detection code (-352) in its response, the call is retried, and   *)
(* the operation reports failure only after the retries are exhausted.     *)
(***************************************************************************)
C31_Original ==
    \A c \in ApiCallers :
        apiCall[c].pc = "done" /\ apiCall[c].result = Failure({"-352"}) =>
            apiCall[c].attempt = HTTP_CONFIG.DEFAULT_MAX_RETRIES

\* the room-status fetch made by handleDanmakuLiveStart in slot h answers
PushStartAnswers(h) ==
    /\ handler[h].kind = "pushStart" /\ handler[h].pc = "fetch"
    /\ handler'[h].pc # "fetch"

\* C32: a push liveStart event marks a room live and runs the start logic
\* only if the room is not already marked live and the room-status fetch
\* made for that event reports live; in every other case the room state is
\* unchanged and no notification is sent.
C32_Original ==
    [][\A h \in Handlers :
          (PushStartAnswers(h) /\ (room.isLive \/ ~upstream.live)) =>
              /\ room' = room
              /\ liveLog' = liveLog
              /\ handler'[h].pc = "idle"
      ]_vars

\* the fetch of the full poll check in slot h fails in this step
CheckFailsNow(h) ==
    /\ handler[h].kind = "check" /\ handler[h].pc = "fetch"
    /\ handler'[h].pc = "idle"
    /\ status' # recordSuccess(status)
    /\ \E error \in Errors : status' = recordFailure(status, error, now)

\* C33: a full poll check (checkLiveStatus) whose room-status fetch fails
\* leaves the room's isLive, title, isBlocked, liveTime and repeat timer
\* unchanged and sends no notification; only the live risk tracker is
\* updated.
C33_FailedCheckLeavesRoom ==
    [][\A h \in Handlers :
          CheckFailsNow(h) =>
              /\ room' = room
              /\ liveTimers' = liveTimers
              /\ liveLog' = liveLog
              /\ \A g \in Handlers \ {h} : handler'[g] = handler[g]
      ]_vars

\* a poll-only room that is live with its repeat timer armed, after a check
\* of it has failed
C33_Witness ==
    /\ ~room.useDanmaku
    /\ room.isLive /\ room.pushTimer
    /\ status.consecutiveFailures > 0
    /\ \A h \in Handlers : handler[h].pc = "idle"

\* C35: one failed feed fetch for one subject increases consecutiveFailures
\* of the posts risk tracker by at most 1, whatever the error text; reaching
\* the block threshold therefore takes at least 3 failed fetches.
C35_Original ==
    [][\A p \in Passes :
          (pass[p].pc = "fetch" /\ pass'[p].pc # "fetch") =>
              status'.consecutiveFailures <= status.consecutiveFailures + 1
      ]_vars

\* caller c finds the last request too recent and goes to sleep in this
\* step; the spacing enforceRateLimit has drawn for it
RateSleepsNow(c) == call[c].pc # "rateSleep" /\ call'[c].pc = "rateSleep"
RequiredSpacing(c) == call'[c].wake - lastRequestTime

\* C34: the spacing enforceRateLimit requires between two requests lies in
\* 2-4 s during the first 30 s after start, in 5-8 s from then until 5 min
\* after start, and in the base range 3-5 s afterwards.
C34_Original ==
    [][\A c \in HttpCallers :
          RateSleepsNow(c) =>
              LET timeSinceStartup == hnow - startupTime IN
              IF timeSinceStartup < HTTP_CONFIG.STARTUP_GRACE_PERIOD
              THEN RequiredSpacing(c) \in 2000..4000
              ELSE IF timeSinceStartup < HTTP_CONFIG.NORMAL_GRACE_PERIOD
              THEN RequiredSpacing(c) \in 5000..8000
              ELSE RequiredSpacing(c) \in 3000..5000
      ]_vars

\* C36: the room has at most one armed repeat-notification interval at any
\* time, and none while it is marked offline, for any interleaving of poll
\* checks, push start and end events and title changes.
C36_Original ==
    /\ liveTimers <= 1
    /\ ~room.isLive => liveTimers = 0

\* the Detector's half of C37: startDetection and stopDetection are
\* synchronous, so its interval and its isRunning flag change together
DetectorTimerOnlyWhileRunning == detectionTimer => isRunning

\* C37: for the Monitor and for the Detector alike, the recurring check
\* timer exists only while isRunning is true, for any interleaving of start
\* and stop calls, a stop issued while start awaits its initialization
\* included.
C37_Original ==
    /\ monitor.checkTimer => monitor.isRunning
    /\ DetectorTimerOnlyWhileRunning

\* a connectRoom call for room r returns false in this step
ConnectFailsNow(r) == <<r, "returns false">> \in danmuEvents'

\* C38: a connectRoom call that returns false leaves the bridge's connection
\* records as they were before the call: neither the return nor the part of
\* the call before it has removed a record.
C38_Original ==
    [][\A r \in Rooms :
          ConnectFailsNow(r) => (connections' = connections /\ ~dropped[r])]_vars

\* C39: the risk-control status handed to status consumers never shows
\* isBlocked = true together with remainingTime = 0: a block whose duration
\* has elapsed is not reported as active.
C39_Original ==
    LET riskStatus == getStatus(status, now) IN
    ~(riskStatus.isBlocked /\ riskStatus.remainingTime = 0)

\* a detection pass has found the tracker unblocked and awaits the feed of
\* its first subscription
PassFetches ==
    /\ ~status.isBlocked
    /\ \E p \in Passes : pass[p].pc = "fetch" /\ pass[p].sub = 1

\* C40: once a block is active on a running Detector, the block eventually
\* ends and a detection pass fetches feeds again, unless the Detector is
\* stopped: with the interval firing and time passing the Detector does not
\* stay paused forever.
C40_BlockEndsAndPassFetches ==
    (status.isBlocked /\ isRunning) ~> (PassFetches \/ ~isRunning)

\* the block has run its duration on a running Detector with a free slot
C40_Witness ==
    /\ status.isBlocked
    /\ isRunning
    /\ detectionTimer
    /\ now = status.blockStartTime + status.blockDuration
    /\ FreePasses # {}


====
